---------------------------- MODULE Spec2Model ----------------------------
(***************************************************************************)
(* Model of the translation service of thesis-translation-backend          *)
(* (src/app/services/translation_service.py): the process-wide cache, the  *)
(* orchestrator translate, the chunk builder, the inference client and the *)
(* output sanitizer.                                                       *)
(***************************************************************************)
EXTENDS Integers, Sequences, FiniteSets, TLC

(***************************************************************************)
(* Python str values.  A str is kept run-length encoded: a sequence of     *)
(* runs [c |-> character, n |-> repetitions], n >= 1, adjacent runs of     *)
(* different characters.  The encoding is exact (Expand gives the          *)
(* characters back) and lets a text of several thousand characters, as the *)
(* chunking threshold needs, stay a few runs long.                         *)
(***************************************************************************)
Rep(c, n) == IF n = 0 THEN <<>> ELSE <<[c |-> c, n |-> n]>>

\* a + b on str
Cat(a, b) ==
  IF a = <<>> THEN b
  ELSE IF b = <<>> THEN a
  ELSE IF a[Len(a)].c = b[1].c
       THEN SubSeq(a, 1, Len(a) - 1)
              \o <<[c |-> b[1].c, n |-> a[Len(a)].n + b[1].n]>>
              \o Tail(b)
       ELSE a \o b

RECURSIVE CompressRange(_, _, _)
\* the str of the characters lo..hi of a tuple of characters
CompressRange(p, lo, hi) ==
  IF lo > hi THEN <<>>
  ELSE IF lo = hi THEN Rep(p[lo], 1)
  ELSE LET mid == (lo + hi) \div 2
       IN Cat(CompressRange(p, lo, mid), CompressRange(p, mid + 1, hi))

\* the str of a tuple of characters
Compress(p) == CompressRange(p, 1, Len(p))

RECURSIVE ExpandRange(_, _, _)
\* the characters of the runs lo..hi of a str
ExpandRange(s, lo, hi) ==
  IF lo > hi THEN <<>>
  ELSE IF lo = hi THEN [k \in 1..s[lo].n |-> s[lo].c]
  ELSE LET mid == (lo + hi) \div 2
       IN ExpandRange(s, lo, mid) \o ExpandRange(s, mid + 1, hi)

\* the tuple of characters of a str
Expand(s) == ExpandRange(s, 1, Len(s))

RECURSIVE RunSum(_, _, _)
\* the characters held by the runs lo..hi of a str
RunSum(s, lo, hi) ==
  IF lo > hi THEN 0
  ELSE IF lo = hi THEN s[lo].n
  ELSE LET mid == (lo + hi) \div 2
       IN RunSum(s, lo, mid) + RunSum(s, mid + 1, hi)

\* len(s)
StrLen(s) == RunSum(s, 1, Len(s))

\* the characters str.strip() removes
Whitespace == {" ", "\n", "\t", "\r"}

\* the character U+0060, which a TLA+ string literal cannot hold
BACKTICK == "U+0060"

RECURSIVE LStrip(_, _)
LStrip(s, set) ==
  IF s # <<>> /\ s[1].c \in set THEN LStrip(Tail(s), set) ELSE s

RECURSIVE RStrip(_, _)
RStrip(s, set) ==
  IF s # <<>> /\ s[Len(s)].c \in set
  THEN RStrip(SubSeq(s, 1, Len(s) - 1), set) ELSE s

\* s.strip(chars): every leading and trailing character of the set goes
Strip(s, set) == RStrip(LStrip(s, set), set)

RECURSIVE ReplaceChars(_, _)
\* p.replace(old, "") on tuples of characters: the leftmost occurrence is
\* removed and the scan goes on after it (what is left of it is not rescanned)
ReplaceChars(p, old) ==
  LET occ == {k \in 1..(Len(p) - Len(old) + 1) :
                SubSeq(p, k, k + Len(old) - 1) = old}
  IN IF occ = {} THEN p
     ELSE LET k == CHOOSE m \in occ : \A o \in occ : m <= o
          IN SubSeq(p, 1, k - 1)
               \o ReplaceChars(SubSeq(p, k + Len(old), Len(p)), old)

\* s.replace(old, "") with old a tuple of characters (a str shorter than old
\* holds no occurrence of it)
Replace(s, old) ==
  IF StrLen(s) < Len(old) THEN s ELSE Compress(ReplaceChars(Expand(s), old))

RECURSIVE JoinReversed(_, _)
\* the parts joined last to first
JoinReversed(sep, parts) ==
  IF parts = <<>> THEN <<>>
  ELSE IF Len(parts) = 1 THEN parts[1]
  ELSE Cat(Cat(JoinReversed(sep, Tail(parts)), sep), parts[1])

RECURSIVE Join(_, _)
\* sep.join(parts)
Join(sep, parts) ==
  IF parts = <<>> THEN <<>>
  ELSE IF Len(parts) = 1 THEN parts[1]
  ELSE Cat(Cat(parts[1], sep), Join(sep, Tail(parts)))

(***************************************************************************)
(* Constants of the service.                                               *)
(***************************************************************************)
MAX_CHAR_COUNT == 3500
CHUNK_TARGET_SIZE == 2000

(***************************************************************************)
(* _clean_translation: the output sanitizer.                               *)
(***************************************************************************)
\* Sure, il testo è stato tradotto da italiano a inglese come segue:
FRASE_1 ==
    <<"S","u","r","e",","," ","i","l"," ","t","e","s","t","o"," ","è"," ","s","t","a","t","o",
      " ","t","r","a","d","o","t","t","o"," ","d","a"," ","i","t","a","l","i","a","n","o"," ",
      "a"," ","i","n","g","l","e","s","e"," ","c","o","m","e"," ","s","e","g","u","e",":">>

\* Sure, il testo è stato tradito con alta precisione.
FRASE_2 ==
    <<"S","u","r","e",","," ","i","l"," ","t","e","s","t","o"," ","è"," ","s","t","a","t","o",
      " ","t","r","a","d","i","t","o"," ","c","o","n"," ","a","l","t","a"," ","p","r","e","c",
      "i","s","i","o","n","e",".">>

\* Sure, il testo è stato tradito.
FRASE_3 ==
    <<"S","u","r","e",","," ","i","l"," ","t","e","s","t","o"," ","è"," ","s","t","a","t","o",
      " ","t","r","a","d","i","t","o",".">>

\* Sure, il testo è già tradotto.
FRASE_4 ==
    <<"S","u","r","e",","," ","i","l"," ","t","e","s","t","o"," ","è"," ","g","i","à"," ","t",
      "r","a","d","o","t","t","o",".">>

\* The text is not provided in the context, so I cannot translate it.
FRASE_5 ==
    <<"T","h","e"," ","t","e","x","t"," ","i","s"," ","n","o","t"," ","p","r","o","v","i","d",
      "e","d"," ","i","n"," ","t","h","e"," ","c","o","n","t","e","x","t",","," ","s","o"," ",
      "I"," ","c","a","n","n","o","t"," ","t","r","a","n","s","l","a","t","e"," ","i","t",".">>

\* Sure, the correct management of chunks is the subject of this test.
FRASE_6 ==
    <<"S","u","r","e",","," ","t","h","e"," ","c","o","r","r","e","c","t"," ","m","a","n","a",
      "g","e","m","e","n","t"," ","o","f"," ","c","h","u","n","k","s"," ","i","s"," ","t","h",
      "e"," ","s","u","b","j","e","c","t"," ","o","f"," ","t","h","i","s"," ","t","e","s","t",
      ".">>

\* Sure, the test is designed to verify the correct management of chunks.
FRASE_7 ==
    <<"S","u","r","e",","," ","t","h","e"," ","t","e","s","t"," ","i","s"," ","d","e","s","i",
      "g","n","e","d"," ","t","o"," ","v","e","r","i","f","y"," ","t","h","e"," ","c","o","r",
      "r","e","c","t"," ","m","a","n","a","g","e","m","e","n","t"," ","o","f"," ","c","h","u",
      "n","k","s",".">>

frasi_indesiderate ==
  <<FRASE_1, FRASE_2, FRASE_3, FRASE_4, FRASE_5, FRASE_6, FRASE_7>>

RECURSIVE RemoveFrasi(_, _)
\* the loop over frasi_indesiderate, from phrase k on
RemoveFrasi(s, k) ==
  IF k > Len(frasi_indesiderate) THEN s
  ELSE RemoveFrasi(Replace(s, frasi_indesiderate[k]), k + 1)

_clean_translation(text) ==
  Strip(Strip(Strip(Strip(Strip(RemoveFrasi(text, 1), Whitespace),
                          {"\""}), {"'"}), {BACKTICK}), Whitespace)

(***************************************************************************)
(* Segmentation.  nltk.sent_tokenize is the Punkt tokenizer: a sentence    *)
(* ends at a run of sentence-final punctuation that whitespace follows;    *)
(* the whitespace between two sentences belongs to neither, the text's     *)
(* trailing whitespace is dropped and an empty sentence is not returned.   *)
(* Without the punkt resource the call raises (see nltk_data below).       *)
(***************************************************************************)
SentenceEnd == {".", "!", "?"}

RECURSIVE SkipWhitespace(_, _)
\* the first run at or after k that is not whitespace
SkipWhitespace(s, k) ==
  IF k <= Len(s) /\ s[k].c \in Whitespace THEN SkipWhitespace(s, k + 1) ELSE k

RECURSIVE SentScan(_, _, _, _)
SentScan(s, k, cur, out) ==
  IF k > Len(s)
  THEN IF RStrip(cur, Whitespace) = <<>> THEN out
       ELSE Append(out, RStrip(cur, Whitespace))
  ELSE IF s[k].c \in SentenceEnd /\ k < Len(s) /\ s[k + 1].c \in Whitespace
       THEN SentScan(s, SkipWhitespace(s, k + 1), <<>>, Append(out, Append(cur, s[k])))
       ELSE SentScan(s, k + 1, Append(cur, s[k]), out)

sent_tokenize(text) == SentScan(text, 1, <<>>, <<>>)

RECURSIVE SplitScan(_, _, _, _, _)
SplitScan(s, sep, k, cur, out) ==
  IF k > Len(s) THEN Append(out, cur)
  ELSE IF s[k].c = sep
       THEN SplitScan(s, sep, k + 1, <<>>,
                      Append(out, cur) \o [j \in 1..(s[k].n - 1) |-> <<>>])
       ELSE SplitScan(s, sep, k + 1, Append(cur, s[k]), out)

\* text.split(sep), sep one character
Split(text, sep) == SplitScan(text, sep, 1, <<>>, <<>>)

(***************************************************************************)
(* _create_chunks: the chunk builder.                                      *)
(***************************************************************************)
\* the segmentation without the except clause
SegmentWithoutFallback(text, nltk_ok) == sent_tokenize(text)

\* the try/except around the segmentation: nltk_ok is whether sent_tokenize
\* returns; when it raises, the text is split on newlines
Segment(text, nltk_ok) ==
  IF nltk_ok THEN sent_tokenize(text) ELSE Split(text, "\n")

\* the test looking at the buffer only, not at the sentence to add
ShouldFlushFullBuffer(current_chunk, sentence, target_size) ==
  /\ StrLen(current_chunk) > target_size
  /\ current_chunk # <<>>

\* the test that does not count the space after the buffer's last unit
ShouldFlushLate(current_chunk, sentence, target_size) ==
  /\ StrLen(current_chunk) + StrLen(sentence) > target_size + 1
  /\ current_chunk # <<>>

\* the test with >= for >
ShouldFlushAtTarget(current_chunk, sentence, target_size) ==
  /\ StrLen(current_chunk) + StrLen(sentence) >= target_size
  /\ current_chunk # <<>>

\* the test without its second operand
ShouldFlushEmpty(current_chunk, sentence, target_size) ==
  StrLen(current_chunk) + StrLen(sentence) > target_size

\* the test that closes the current chunk before a sentence is added
ShouldFlush(current_chunk, sentence, target_size) ==
  /\ StrLen(current_chunk) + StrLen(sentence) > target_size
  /\ current_chunk # <<>>

RECURSIVE ChunkLoop(_, _, _, _, _)
\* the for loop over the sentences from sentence k on, then the final flush
ChunkLoop(sentences, target_size, k, chunks, current_chunk) ==
  IF k > Len(sentences)
  THEN IF current_chunk # <<>>
       THEN Append(chunks, Strip(current_chunk, Whitespace))
       ELSE chunks
  ELSE LET flush == ShouldFlush(current_chunk, sentences[k], target_size)
           kept == IF flush THEN <<>> ELSE current_chunk
       IN ChunkLoop(sentences, target_size, k + 1,
                    IF flush THEN Append(chunks, Strip(current_chunk, Whitespace))
                    ELSE chunks,
                    Cat(Cat(kept, sentences[k]), Rep(" ", 1)))

_create_chunks(text, target_size, nltk_ok) ==
  ChunkLoop(Segment(text, nltk_ok), target_size, 1, <<>>, <<>>)

(***************************************************************************)
(* The inference endpoint's answers.  A JSON value is tagged with its      *)
(* Python type after response.json(): dict, list, str, NoneType, int.      *)
(***************************************************************************)
JNull == [t |-> "NoneType", v |-> 0]
JInt(n) == [t |-> "int", v |-> n]
JStr(s) == [t |-> "str", v |-> s]
JList(items) == [t |-> "list", v |-> items]
JDict(fields) == [t |-> "dict", v |-> fields]

\* no exception
NoExc == [type |-> "none"]

\* value[key] as Python evaluates it, key a dict key (a string) or a list
\* index (a number): the item, or the exception the subscript raises
GetItem(value, key, key_is_index) ==
  CASE value.t = "dict" ->
         IF ~key_is_index /\ key \in DOMAIN value.v
         THEN [exc |-> NoExc, item |-> value.v[key]]
         ELSE [exc |-> [type |-> "KeyError"], item |-> JNull]
    [] value.t = "list" ->
         IF ~key_is_index
         THEN [exc |-> [type |-> "TypeError"], item |-> JNull]
         ELSE IF key + 1 \in 1..Len(value.v)
              THEN [exc |-> NoExc, item |-> value.v[key + 1]]
              ELSE [exc |-> [type |-> "IndexError"], item |-> JNull]
    [] value.t = "str" ->
         IF ~key_is_index
         THEN [exc |-> [type |-> "TypeError"], item |-> JNull]
         ELSE IF key + 1 \in 1..StrLen(value.v)
              THEN [exc |-> NoExc,
                    item |-> JStr(Rep(Expand(value.v)[key + 1], 1))]
              ELSE [exc |-> [type |-> "IndexError"], item |-> JNull]
    [] OTHER -> [exc |-> [type |-> "TypeError"], item |-> JNull]

\* data['choices'][0]['message']['content']
ExtractContent(data) ==
  LET a == GetItem(data, "choices", FALSE)
      b == GetItem(a.item, 0, TRUE)
      c == GetItem(b.item, "message", FALSE)
      d == GetItem(c.item, "content", FALSE)
  IN IF a.exc # NoExc THEN a
     ELSE IF b.exc # NoExc THEN b
     ELSE IF c.exc # NoExc THEN c
     ELSE d

\* only the 5xx statuses raising
RaisesForServerError(status) == 500 <= status /\ status < 600

\* response.raise_for_status() raises HTTPError
RaisesForStatus(status) == 400 <= status /\ status < 600

TranslationError(msg) == [type |-> "TranslationError", msg |-> msg]

Returned(value) == [exc |-> NoExc, value |-> value]
Raised(exc) == [exc |-> exc, value |-> <<>>]

(***************************************************************************)
(* _call_vllm_api: one POST to the endpoint and the reading of its answer. *)
(* response is what the endpoint did with the request:                     *)
(*   network_error  requests.post raised a RequestException                *)
(*   status         the status code of the response                        *)
(*   is_json        whether response.json() can parse the body             *)
(*   data           the parsed body                                        *)
(***************************************************************************)
_call_vllm_api(text_to_translate, src, dst, response) ==
  IF response.network_error
  THEN Raised(TranslationError(
         [text |-> "Il servizio di traduzione non e' al momento disponibile",
          e |-> [type |-> "ConnectionError"]]))
  ELSE IF RaisesForStatus(response.status)
  THEN Raised(TranslationError(
         [text |-> "Il servizio di traduzione non e' al momento disponibile",
          e |-> [type |-> "HTTPError", status |-> response.status]]))
  ELSE IF ~response.is_json
  THEN Raised([type |-> "JSONDecodeError"])
  ELSE LET got == ExtractContent(response.data)
       IN IF got.exc # NoExc
          THEN Raised(TranslationError(
                 [text |-> "Risposta non valida o malformata dal servizio di traduzione",
                  e |-> got.exc]))
          ELSE IF got.item.t # "str"
          THEN Raised([type |-> "AttributeError"])
          ELSE Returned(_clean_translation(got.item.v))

(***************************************************************************)
(* Inputs.                                                                 *)
(***************************************************************************)
\* sentences of the long text
NSentences == 3
\* distinct (text, src, dst) requests one run of the process serves
MaxDistinct == 2

Lang(p) == Compress(p)
IT == Lang(<<"i", "t">>)
EN == Lang(<<"e", "n">>)

Letters == <<"A", "B", "C", "D", "E">>

\* one sentence of 1700 characters
Sentence(k) == Cat(Rep(Letters[((k - 1) % Len(Letters)) + 1], 1699), Rep(".", 1))

RECURSIVE SentencesText(_)
\* n sentences, a space between two
SentencesText(n) ==
  IF n = 1 THEN Sentence(1)
  ELSE Cat(Cat(SentencesText(n - 1), Rep(" ", 1)), Sentence(n))

\* a short text
TextShort == Compress(<<"C", "i", "a", "o", ".">>)
\* MAX_CHAR_COUNT characters exactly
TextLimit == Cat(Rep("A", MAX_CHAR_COUNT - 1), Rep(".", 1))
\* one sentence of MAX_CHAR_COUNT + 1 characters
TextOver == Cat(Rep("A", MAX_CHAR_COUNT), Rep(".", 1))
\* NSentences sentences of 1700 characters
TextLong == SentencesText(NSentences)
\* whitespace only
TextBlank == Rep(" ", MAX_CHAR_COUNT + 1)
\* two short sentences, MAX_CHAR_COUNT spaces between them
TextSparse ==
  Cat(Cat(Compress(<<"S", "i", ".">>), Rep(" ", MAX_CHAR_COUNT)),
      Compress(<<"N", "o", ".">>))

Requests ==
  {<<t, IT, EN>> : t \in {TextShort, TextLimit, TextOver, TextLong, TextBlank,
                           TextSparse}}
    \cup {<<TextShort, EN, IT>>}

\* what the model answers
ContentPlain == Compress(<<"H", "i">>)
\* an artifact phrase, then a quoted answer and a line end
ContentDirty == Cat(Compress(FRASE_4), Compress(<<" ", "\"", "Y", "o", "\"", "\n">>))

Completion(content) ==
  JDict([choices |-> JList(<<JDict([message |-> JDict([content |-> content])])>>)])

Answer(status, data) ==
  [network_error |-> FALSE, status |-> status, is_json |-> TRUE, data |-> data]

Responses ==
  {Answer(200, Completion(JStr(c))) : c \in {ContentPlain, ContentDirty}}
    \cup {Answer(503, Completion(JStr(ContentPlain)))}
    \cup {Answer(200, d) : d \in {JDict([error |-> JStr(ContentPlain)]),
                                  Completion(JNull)}}
    \cup {[network_error |-> FALSE, status |-> 200, is_json |-> FALSE, data |-> JNull],
          [network_error |-> TRUE, status |-> 0, is_json |-> FALSE, data |-> JNull]}

(***************************************************************************)
(* The process: the cache, and translate called by one caller at a time.   *)
(***************************************************************************)
VARIABLES
  _TRANSLATION_CACHE,  \* cache_key -> final translation
  nltk_data,           \* whether the punkt resource is installed
  pc,                  \* where translate is: idle, chunks, single, returned, raised
  text, src, dst,      \* translate's arguments
  cache_key,
  chunks, translated_chunks,
  i,                   \* chunks translated so far (the loop index)
  outcome,             \* what translate returned or raised
  posts,               \* the POSTs of this call: text sent and response got
  chunked,             \* whether this call invoked _create_chunks
  hit,                 \* whether this call found its key in the cache
  history,             \* request -> how its latest finished call ended
  first_result,        \* request -> what its first successful call returned
  before,              \* history and first_result of the request at call time
  client,              \* one call of _call_vllm_api on its own: response, result
  builder,             \* one call of _create_chunks on its own, line by line
  sanitizer,           \* one text through _clean_translation, then through it again
  lookup,              \* a request cached, then the cache asked for requests close to it
  workers,             \* the threads of the process inside translate, each with its locals
  writers,             \* the threads in the order of their writes to the cache
  db,                  \* the File and Translation tables
  http,                \* the last request of the API and its response
  bench,               \* the benchmark client: its queue, its threads and its results
  service              \* the without-vllm endpoint of the benchmark service

vars ==
  <<_TRANSLATION_CACHE, nltk_data, pc, text, src, dst, cache_key, chunks,
    translated_chunks, i, outcome, posts, chunked, hit, history, first_result,
    before, client,
    builder,
    sanitizer,
    lookup,
    workers,
    writers,
    db,
    http,
    bench,
    service>>

\* the key made of the text alone
CacheKeyOfText(t, s, d) == t

\* hashlib.sha256(f"{src}:{dst}:{text}".encode("utf-8")).hexdigest(), the hash
\* taken as injective: the key is the string hashed
CacheKey(t, s, d) == Cat(Cat(Cat(Cat(s, Rep(":", 1)), d), Rep(":", 1)), t)

Put(f, k, v) == [x \in DOMAIN f \cup {k} |-> IF x = k THEN v ELSE f[x]]

\* the cache write that forgets the other entries
CacheStoreAlone(cache, key, final_translation) ==
  [x \in {key} |-> final_translation]

\* the cache write forgotten
CacheStoreDropped(cache, key, final_translation) == cache

\* _TRANSLATION_CACHE[cache_key] = final_translation
CacheStore(cache, key, final_translation) == Put(cache, key, final_translation)

\* the limit itself taken as too long
NeedsChunkingAtLimit(t) == StrLen(t) >= MAX_CHAR_COUNT

\* the choice of the strategy
NeedsChunking(t) == StrLen(t) > MAX_CHAR_COUNT

\* the error naming the chunk by the loop index
ChunkErrorFromZero(idx, n, e) ==
  TranslationError([text |-> "La traduzione e' fallita sul chunk",
                    chunk |-> idx, total |-> n, e |-> e])

\* the error translate raises when the endpoint call of chunk i (from 0) of n
\* raised the TranslationError e
ChunkError(idx, n, e) ==
  TranslationError([text |-> "La traduzione e' fallita sul chunk",
                    chunk |-> idx + 1, total |-> n, e |-> e])

\* the state of the module once imported: the cache is empty
Loaded ==
  /\ _TRANSLATION_CACHE = <<>>
  /\ pc = "idle"
  /\ text = <<>> /\ src = <<>> /\ dst = <<>>
  /\ cache_key = <<>>
  /\ chunks = <<>> /\ translated_chunks = <<>>
  /\ i = 0
  /\ outcome = Returned(<<>>)
  /\ posts = <<>>
  /\ chunked = FALSE
  /\ hit = FALSE
  /\ history = <<>>
  /\ first_result = <<>>
  /\ before = [ended |-> "never", done |-> FALSE, cache |-> <<>>]

\* _create_chunks(text, target_size) entered, nltk_ok being whether
\* nltk.sent_tokenize will return: nothing is segmented yet.  members are the
\* sentences (by position) in current_chunk and groups those of each chunk.
Entered(t, target_size, nltk_ok) ==
  [text |-> t, target_size |-> target_size, nltk_ok |-> nltk_ok, at |-> "try",
   sentences |-> <<>>, k |-> 0, chunks |-> <<>>, current_chunk |-> <<>>,
   members |-> <<>>, groups |-> <<>>]

\* the endpoint client not yet called with `response` as the endpoint's answer
Pending(response) ==
  [response |-> response, called |-> FALSE, result |-> Returned(<<>>)]

\* _clean_translation(text) entered
Dirty(t) == [text |-> t, at |-> "call", once |-> <<>>, twice |-> <<>>]

\* translate(p, s, d) about to be cached, p the characters of the text; then
\* the cache is asked for (p, d, s) and for p with c at position pos
Near(p, s, d, pos, c) ==
  [text |-> p, src |-> s, dst |-> d, pos |-> pos, c |-> c, at |-> "store",
   swapped_found |-> FALSE, changed_found |-> FALSE, same_found |-> FALSE]

\* the threads that serve requests in the process
Threads == {1, 2, 3}

\* a thread that is not in translate
Outside ==
  [at |-> "outside", text |-> <<>>, src |-> <<>>, dst |-> <<>>, cache_key |-> <<>>,
   hit |-> FALSE, chunked |-> FALSE, texts |-> <<>>, translated |-> <<>>,
   value |-> <<>>]

\* the tables with the files uploaded and no translation; ids are given in
\* order and never given again
Uploaded(files) == [files |-> files, translations |-> <<>>, last_id |-> 0]

\* no request served yet
NoRequest ==
  [n |-> 0, request |-> [action |-> "none"], response |-> [status |-> 0],
   called |-> 0, result |-> Returned(<<>>), prior |-> <<>>, made |-> <<>>,
   touched |-> {}]

\* the functions that are looked at on their own are not called
ClientIdle == client = Pending(Answer(200, Completion(JStr(ContentPlain))))
BuilderIdle == builder = Entered(TextShort, CHUNK_TARGET_SIZE, TRUE)
SanitizerIdle == sanitizer = Dirty(ContentPlain)
LookupIdle == lookup = Near(<<"a">>, IT, EN, 1, ":")
ThreadsIdle == workers = [w \in Threads |-> Outside] /\ writers = <<>>
ApiIdle == db = Uploaded(<<>>) /\ http = NoRequest

\* worker threads the benchmark client is run with, at most
MaxWorkers == 2

\* requests the benchmark client is run with, at most
MaxTasks == 3

\* main of the benchmark client after the queue is filled with `requests`
\* tasks, before the first of `concurrency` threads is started
Filled(requests, concurrency) ==
  [requests |-> requests, concurrency |-> concurrency,
   q |-> requests, unfinished_tasks |-> requests,
   main |-> "start", started |-> 0,
   at |-> [w \in 1..MaxWorkers |-> "new"],
   response |-> [w \in 1..MaxWorkers |-> [sent |-> FALSE, status_code |-> 0]],
   read |-> [w \in 1..MaxWorkers |-> 0],
   results_lock |-> 0,
   results |-> [success |-> 0, failure |-> 0, total_time |-> 0],
   taken |-> 0, sent |-> 0]

BenchIdle == bench = Filled(0, 0)

\* requests the benchmark service gets in one run
MaxCalls == 3

\* the benchmark service after import: model_cache = {}, no request yet;
\* cuda is what torch.cuda.is_available() answers in this process
Imported(cuda) ==
  [model_cache |-> {}, cuda |-> cuda,
   at |-> [r \in 1..MaxCalls |-> "new"],
   first_request |-> [r \in 1..MaxCalls |-> FALSE],
   loaded |-> [tokenizer |-> 0, model |-> 0]]

ServiceIdle == service = Imported(FALSE)

Init ==
  /\ Loaded
  /\ nltk_data \in BOOLEAN
  /\ ClientIdle /\ BuilderIdle /\ SanitizerIdle /\ LookupIdle /\ ThreadsIdle /\ ApiIdle /\ BenchIdle
  /\ ServiceIdle

Request == <<text, src, dst>>

\* the call ends: the caller gets `result`
Finish(result) ==
  /\ outcome' = result
  /\ pc' = IF result.exc = NoExc THEN "returned" ELSE "raised"
  /\ history' = Put(history, Request,
                    IF result.exc = NoExc THEN "returned"
                    ELSE IF pc = "chunks" THEN "failed on a chunk"
                    ELSE "failed")
  /\ first_result' = IF result.exc = NoExc /\ Request \notin DOMAIN first_result
                     THEN Put(first_result, Request, result.value)
                     ELSE first_result

\* translate(text, src, dst) up to its first call of the endpoint: the cache
\* lookup, the choice of the strategy and the chunking
Translate(t, s, d) ==
  /\ pc \in {"idle", "returned", "raised"}
  /\ <<t, s, d>> \in DOMAIN history \/ Cardinality(DOMAIN history) < MaxDistinct
  /\ text' = t /\ src' = s /\ dst' = d
  /\ cache_key' = CacheKey(t, s, d)
  /\ posts' = <<>>
  /\ translated_chunks' = <<>>
  /\ i' = 0
  /\ before' = [ended |-> IF <<t, s, d>> \in DOMAIN history
                          THEN history[<<t, s, d>>] ELSE "never",
                done |-> <<t, s, d>> \in DOMAIN first_result,
                cache |-> _TRANSLATION_CACHE]
  /\ UNCHANGED <<_TRANSLATION_CACHE, nltk_data, client, builder, sanitizer, lookup,
                 workers, writers, db, http, bench, service>>
  /\ IF CacheKey(t, s, d) \in DOMAIN _TRANSLATION_CACHE
     THEN /\ hit' = TRUE
          /\ chunked' = FALSE
          /\ chunks' = <<>>
          /\ outcome' = Returned(_TRANSLATION_CACHE[CacheKey(t, s, d)])
          /\ pc' = "returned"
          /\ history' = Put(history, <<t, s, d>>, "returned")
          /\ first_result' =
               IF <<t, s, d>> \in DOMAIN first_result THEN first_result
               ELSE Put(first_result, <<t, s, d>>,
                        _TRANSLATION_CACHE[CacheKey(t, s, d)])
     ELSE /\ hit' = FALSE
          /\ UNCHANGED <<outcome, history, first_result>>
          /\ IF NeedsChunking(t)
             THEN /\ chunked' = TRUE
                  /\ chunks' = _create_chunks(t, CHUNK_TARGET_SIZE, nltk_data)
                  /\ pc' = "chunks"
             ELSE /\ chunked' = FALSE
                  /\ chunks' = <<>>
                  /\ pc' = "single"

\* the chunk loop keeping in the cache what was translated before a failure
TranslateChunkKeepingPartial(response) ==
  /\ pc = "chunks"
  /\ i < Len(chunks)
  /\ \E r \in {_call_vllm_api(chunks[i + 1], src, dst, response)} :
        /\ posts' = Append(posts, [text |-> chunks[i + 1], response |-> response])
        /\ IF r.exc = NoExc
           THEN /\ translated_chunks' = Append(translated_chunks, r.value)
                /\ i' = i + 1
                /\ UNCHANGED <<pc, outcome, history, first_result, _TRANSLATION_CACHE>>
           ELSE /\ Finish(IF r.exc.type = "TranslationError"
                          THEN Raised(ChunkError(i, Len(chunks), r.exc))
                          ELSE r)
                /\ _TRANSLATION_CACHE' =
                     CacheStore(_TRANSLATION_CACHE, cache_key,
                                Join(Rep(" ", 1), translated_chunks))
                /\ UNCHANGED <<translated_chunks, i>>
  /\ UNCHANGED <<nltk_data, text, src, dst, cache_key, chunks, chunked, hit, before,
                 client, builder, sanitizer, lookup, workers, writers, db, http,
                 bench, service>>

\* the chunk loop sending a failed chunk again
TranslateChunkRetrying(response) ==
  /\ pc = "chunks"
  /\ i < Len(chunks)
  /\ \E r \in {_call_vllm_api(chunks[i + 1], src, dst, response)} :
        /\ posts' = Append(posts, [text |-> chunks[i + 1], response |-> response])
        /\ IF r.exc = NoExc
           THEN /\ translated_chunks' = Append(translated_chunks, r.value)
                /\ i' = i + 1
                /\ UNCHANGED <<pc, outcome, history, first_result>>
           ELSE IF Len(posts) <= Len(chunks)
           THEN UNCHANGED <<translated_chunks, i, pc, outcome, history, first_result>>
           ELSE /\ Finish(IF r.exc.type = "TranslationError"
                          THEN Raised(ChunkError(i, Len(chunks), r.exc))
                          ELSE r)
                /\ UNCHANGED <<translated_chunks, i>>
  /\ UNCHANGED <<_TRANSLATION_CACHE, nltk_data, text, src, dst, cache_key,
                 chunks, chunked, hit, before, client, builder, sanitizer, lookup,
                 workers, writers, db, http, bench, service>>

\* the chunk loop going on to the next chunk after a failure
TranslateChunkSkippingFailure(response) ==
  /\ pc = "chunks"
  /\ i < Len(chunks)
  /\ \E r \in {_call_vllm_api(chunks[i + 1], src, dst, response)} :
        /\ posts' = Append(posts, [text |-> chunks[i + 1], response |-> response])
        /\ translated_chunks' = Append(translated_chunks, r.value)
        /\ i' = i + 1
        /\ UNCHANGED <<pc, outcome, history, first_result>>
  /\ UNCHANGED <<_TRANSLATION_CACHE, nltk_data, text, src, dst, cache_key,
                 chunks, chunked, hit, before, client, builder, sanitizer, lookup,
                 workers, writers, db, http, bench, service>>

\* one turn of the chunk loop: chunk i (counted from 0) goes to the endpoint
TranslateChunk(response) ==
  /\ pc = "chunks"
  /\ i < Len(chunks)
  /\ \E r \in {_call_vllm_api(chunks[i + 1], src, dst, response)} :
        /\ posts' = Append(posts, [text |-> chunks[i + 1], response |-> response])
        /\ IF r.exc = NoExc
           THEN /\ translated_chunks' = Append(translated_chunks, r.value)
                /\ i' = i + 1
                /\ UNCHANGED <<pc, outcome, history, first_result>>
           ELSE /\ Finish(IF r.exc.type = "TranslationError"
                          THEN Raised(ChunkError(i, Len(chunks), r.exc))
                          ELSE r)
                /\ UNCHANGED <<translated_chunks, i>>
  /\ UNCHANGED <<_TRANSLATION_CACHE, nltk_data, text, src, dst, cache_key,
                 chunks, chunked, hit, before, client, builder, sanitizer, lookup,
                 workers, writers, db, http, bench, service>>

\* after the loop: the join, the cache write, the return
JoinChunks ==
  /\ pc = "chunks"
  /\ i = Len(chunks)
  /\ LET final_translation == Join(Rep(" ", 1), translated_chunks)
     IN /\ _TRANSLATION_CACHE' =
             CacheStore(_TRANSLATION_CACHE, cache_key, final_translation)
        /\ Finish(Returned(final_translation))
  /\ UNCHANGED <<nltk_data, text, src, dst, cache_key, chunks, translated_chunks,
                 i, posts, chunked, hit, before, client, builder, sanitizer,
                 lookup, workers, writers, db, http, bench, service>>

\* the short text, a 5xx answer tried again until the third POST
SingleCallWithRetry(response) ==
  /\ pc = "single"
  /\ \E r \in {_call_vllm_api(text, src, dst, response)} :
        /\ posts' = Append(posts, [text |-> text, response |-> response])
        /\ _TRANSLATION_CACHE' = IF r.exc = NoExc
                                 THEN CacheStore(_TRANSLATION_CACHE, cache_key, r.value)
                                 ELSE _TRANSLATION_CACHE
        /\ IF ~response.network_error /\ response.status >= 500 /\ Len(posts) < 2
           THEN UNCHANGED <<pc, outcome, history, first_result>>
           ELSE Finish(r)
  /\ UNCHANGED <<nltk_data, text, src, dst, cache_key, chunks, translated_chunks,
                 i, chunked, hit, before, client, builder, sanitizer, lookup,
                 workers, writers, db, http, bench, service>>

\* the short text: one call of the endpoint, then the cache write and the return
SingleCall(response) ==
  /\ pc = "single"
  /\ \E r \in {_call_vllm_api(text, src, dst, response)} :
        /\ posts' = Append(posts, [text |-> text, response |-> response])
        /\ _TRANSLATION_CACHE' = IF r.exc = NoExc
                                 THEN CacheStore(_TRANSLATION_CACHE, cache_key, r.value)
                                 ELSE _TRANSLATION_CACHE
        /\ Finish(r)
  /\ UNCHANGED <<nltk_data, text, src, dst, cache_key, chunks, translated_chunks,
                 i, chunked, hit, before, client, builder, sanitizer, lookup,
                 workers, writers, db, http, bench, service>>

Next ==
  \/ \E r \in Requests : Translate(r[1], r[2], r[3])
  \/ \E response \in Responses : TranslateChunk(response)
  \/ JoinChunks
  \/ \E response \in Responses : SingleCall(response)

Spec == Init /\ [][Next]_vars

\* translate is synchronous: a call that is in the chunk loop or at its single
\* call goes on, and requests.post returns or raises within its timeout
SpecLive ==
  /\ Init /\ [][Next]_vars
  /\ WF_vars(\E response \in Responses : TranslateChunk(response))
  /\ WF_vars(JoinChunks)
  /\ WF_vars(\E response \in Responses : SingleCall(response))

(***************************************************************************)
(* translate with the codes the view passes on: src_language and           *)
(* dst_language of the request body, any string that is not empty.         *)
(***************************************************************************)
\* a code without the separator of the key, and with it
Code(p) == Compress(p)

\* short texts and codes, some with the separator of the key
CodeRequests ==
  {<<Compress(<<"t">>), Code(<<"a", ":", "b">>), Code(<<"c">>)>>,
   <<Compress(<<"t">>), Code(<<"a">>), Code(<<"b", ":", "c">>)>>,
   <<Compress(<<"c", ":", "t">>), Code(<<"a">>), Code(<<"b">>)>>,
   <<Compress(<<"t">>), Code(<<"a">>), Code(<<"b">>)>>,
   <<Compress(<<"t">>), Code(<<"b">>), Code(<<"a">>)>>}

NextCodes ==
  \/ \E r \in CodeRequests : Translate(r[1], r[2], r[3])
  \/ \E response \in Responses : SingleCall(response)

SpecCodes == Init /\ [][NextCodes]_vars

(***************************************************************************)
(* _call_vllm_api on its own: one call for each answer of the endpoint.    *)
(***************************************************************************)
ClientStatuses ==
  {200, 201, 204, 299, 300, 304, 399, 400, 404, 429, 499, 500, 503, 599}

ClientBodies ==
  {Completion(JStr(ContentPlain)), Completion(JStr(ContentDirty)),
   Completion(JNull), Completion(JInt(7)),
   Completion(JList(<<JStr(ContentPlain)>>)),
   JNull, JStr(ContentPlain), JList(<<>>),
   JList(<<Completion(JStr(ContentPlain))>>),
   JDict([error |-> JStr(ContentPlain)]),
   JDict([choices |-> JNull]),
   JDict([choices |-> JList(<<>>)]),
   JDict([choices |-> JStr(ContentPlain)]),
   JDict([choices |-> JDict([message |-> JDict([content |-> JStr(ContentPlain)])])]),
   JDict([choices |-> JList(<<JStr(ContentPlain)>>)]),
   JDict([choices |-> JList(<<JDict([text |-> JStr(ContentPlain)])>>)]),
   JDict([choices |-> JList(<<JDict([message |-> JStr(ContentPlain)])>>)]),
   JDict([choices |-> JList(<<JDict([message |-> JDict([role |-> JStr(ContentPlain)])])>>)])}

ClientResponses ==
  {Answer(status, data) : status \in ClientStatuses, data \in ClientBodies}
    \cup {[network_error |-> FALSE, status |-> status, is_json |-> FALSE,
           data |-> JNull] : status \in ClientStatuses}
    \cup {[network_error |-> TRUE, status |-> 0, is_json |-> FALSE, data |-> JNull]}

InitClient ==
  /\ Loaded
  /\ nltk_data = TRUE
  /\ \E response \in ClientResponses : client = Pending(response)
  /\ BuilderIdle /\ SanitizerIdle /\ LookupIdle /\ ThreadsIdle /\ ApiIdle /\ BenchIdle
  /\ ServiceIdle

\* _call_vllm_api(text_to_translate, src, dst), the endpoint answering
\* client.response
CallClient ==
  /\ ~client.called
  /\ client' = [response |-> client.response, called |-> TRUE,
                result |-> _call_vllm_api(TextShort, IT, EN, client.response)]
  /\ UNCHANGED <<_TRANSLATION_CACHE, nltk_data, pc, text, src, dst, cache_key,
                 chunks, translated_chunks, i, outcome, posts, chunked, hit,
                 history, first_result, before, builder, sanitizer, lookup,
                 workers, writers, db, http, bench, service>>

NextClient == CallClient

SpecClient == InitClient /\ [][NextClient]_vars

(***************************************************************************)
(* _create_chunks on its own, one statement at a time, for every short     *)
(* text over a small alphabet and small target sizes.                      *)
(***************************************************************************)
\* characters of the longest text
MaxTextLen == 5

BuilderAlphabet == {"a", ".", " ", "\n"}

BuilderTexts ==
  {Compress(p) : p \in UNION {[1..n -> BuilderAlphabet] : n \in 0..MaxTextLen}}

BuilderTargets == {1, 3}

InitChunks ==
  /\ Loaded
  /\ nltk_data = TRUE
  /\ ClientIdle /\ SanitizerIdle /\ LookupIdle /\ ThreadsIdle /\ ApiIdle /\ BenchIdle
  /\ ServiceIdle
  /\ \E t \in BuilderTexts, target_size \in BuilderTargets, nltk_ok \in BOOLEAN :
       builder = Entered(t, target_size, nltk_ok)

\* the try/except around the segmentation, then chunks = [], current_chunk = ""
Tokenize ==
  /\ builder.at = "try"
  /\ builder' = [builder EXCEPT
                   !.sentences = Segment(builder.text, builder.nltk_ok),
                   !.at = "for"]
  /\ UNCHANGED <<_TRANSLATION_CACHE, nltk_data, pc, text, src, dst, cache_key,
                 chunks, translated_chunks, i, outcome, posts, chunked, hit,
                 history, first_result, before, client, sanitizer, lookup, workers,
                 writers, db, http, bench, service>>

\* a flush that loses the sentence that caused it
AddSentenceLosing ==
  /\ builder.at = "for"
  /\ builder.k < Len(builder.sentences)
  /\ LET sentence == builder.sentences[builder.k + 1]
         flush == ShouldFlush(builder.current_chunk, sentence, builder.target_size)
     IN builder' = [builder EXCEPT
          !.k = builder.k + 1,
          !.chunks = IF flush
                     THEN Append(builder.chunks, Strip(builder.current_chunk, Whitespace))
                     ELSE builder.chunks,
          !.groups = IF flush THEN Append(builder.groups, builder.members)
                     ELSE builder.groups,
          !.current_chunk = IF flush THEN <<>>
                            ELSE Cat(Cat(builder.current_chunk, sentence), Rep(" ", 1)),
          !.members = IF flush THEN <<>> ELSE Append(builder.members, builder.k + 1)]
  /\ UNCHANGED <<_TRANSLATION_CACHE, nltk_data, pc, text, src, dst, cache_key,
                 chunks, translated_chunks, i, outcome, posts, chunked, hit,
                 history, first_result, before, client, sanitizer, lookup, workers,
                 writers, db, http, bench, service>>

\* one turn of the for loop: the flush test, then current_chunk += sentence + " "
AddSentence ==
  /\ builder.at = "for"
  /\ builder.k < Len(builder.sentences)
  /\ LET sentence == builder.sentences[builder.k + 1]
         flush == ShouldFlush(builder.current_chunk, sentence, builder.target_size)
         kept == IF flush THEN <<>> ELSE builder.current_chunk
     IN builder' = [builder EXCEPT
          !.k = builder.k + 1,
          !.chunks = IF flush
                     THEN Append(builder.chunks, Strip(builder.current_chunk, Whitespace))
                     ELSE builder.chunks,
          !.groups = IF flush THEN Append(builder.groups, builder.members)
                     ELSE builder.groups,
          !.current_chunk = Cat(Cat(kept, sentence), Rep(" ", 1)),
          !.members = Append(IF flush THEN <<>> ELSE builder.members, builder.k + 1)]
  /\ UNCHANGED <<_TRANSLATION_CACHE, nltk_data, pc, text, src, dst, cache_key,
                 chunks, translated_chunks, i, outcome, posts, chunked, hit,
                 history, first_result, before, client, sanitizer, lookup, workers,
                 writers, db, http, bench, service>>

\* the return without the last flush
ReturnWithoutFlush ==
  /\ builder.at = "for"
  /\ builder.k = Len(builder.sentences)
  /\ builder' = [builder EXCEPT !.at = "return"]
  /\ UNCHANGED <<_TRANSLATION_CACHE, nltk_data, pc, text, src, dst, cache_key,
                 chunks, translated_chunks, i, outcome, posts, chunked, hit,
                 history, first_result, before, client, sanitizer, lookup, workers,
                 writers, db, http, bench, service>>

\* after the loop: the last flush, and the return
FlushLast ==
  /\ builder.at = "for"
  /\ builder.k = Len(builder.sentences)
  /\ builder' = [builder EXCEPT
       !.at = "return",
       !.chunks = IF builder.current_chunk # <<>>
                  THEN Append(builder.chunks, Strip(builder.current_chunk, Whitespace))
                  ELSE builder.chunks,
       !.groups = IF builder.current_chunk # <<>>
                  THEN Append(builder.groups, builder.members)
                  ELSE builder.groups]
  /\ UNCHANGED <<_TRANSLATION_CACHE, nltk_data, pc, text, src, dst, cache_key,
                 chunks, translated_chunks, i, outcome, posts, chunked, hit,
                 history, first_result, before, client, sanitizer, lookup, workers,
                 writers, db, http, bench, service>>

NextChunks == Tokenize \/ AddSentence \/ FlushLast

SpecChunks == InitChunks /\ [][NextChunks]_vars

(***************************************************************************)
(* _clean_translation on its own: the model's answer sanitized, and the    *)
(* result sanitized again, for every short text of letters, quotes and     *)
(* spaces and for texts made of the phrases.                               *)
(***************************************************************************)
\* characters of the longest text of quotes
MaxQuotedLen == 4

QuoteAlphabet == {"a", " ", "\"", "'", BACKTICK}

QuotedTexts ==
  {Compress(p) : p \in UNION {[1..n -> QuoteAlphabet] : n \in 0..MaxQuotedLen}}

\* FRASE_5 inside FRASE_3, before its last word
PhraseInPhrase == Compress(SubSeq(FRASE_3, 1, 23) \o FRASE_5 \o SubSeq(FRASE_3, 24, 31))

PhraseTexts ==
  {Compress(frasi_indesiderate[k]) : k \in 1..Len(frasi_indesiderate)}
    \cup {ContentPlain, ContentDirty, PhraseInPhrase,
          Cat(Compress(FRASE_2), Compress(<<" ", "'", "a", "'">>))}

InitClean ==
  /\ Loaded
  /\ nltk_data = TRUE
  /\ ClientIdle /\ BuilderIdle /\ LookupIdle /\ ThreadsIdle /\ ApiIdle /\ BenchIdle
  /\ ServiceIdle
  /\ \E t \in QuotedTexts \cup PhraseTexts : sanitizer = Dirty(t)

\* _clean_translation(text)
CleanOnce ==
  /\ sanitizer.at = "call"
  /\ sanitizer' = [sanitizer EXCEPT !.at = "once",
                                    !.once = _clean_translation(sanitizer.text)]
  /\ UNCHANGED <<_TRANSLATION_CACHE, nltk_data, pc, text, src, dst, cache_key,
                 chunks, translated_chunks, i, outcome, posts, chunked, hit,
                 history, first_result, before, client, builder, lookup, workers,
                 writers, db, http, bench, service>>

\* _clean_translation of what _clean_translation returned
CleanTwice ==
  /\ sanitizer.at = "once"
  /\ sanitizer' = [sanitizer EXCEPT !.at = "twice",
                                    !.twice = _clean_translation(sanitizer.once)]
  /\ UNCHANGED <<_TRANSLATION_CACHE, nltk_data, pc, text, src, dst, cache_key,
                 chunks, translated_chunks, i, outcome, posts, chunked, hit,
                 history, first_result, before, client, builder, lookup, workers,
                 writers, db, http, bench, service>>

NextClean == CleanOnce \/ CleanTwice

SpecClean == InitClean /\ [][NextClean]_vars

(***************************************************************************)
(* The cache key on its own: the result of one request is stored as line   *)
(* 277 stores it, then the cache is asked as line 246 asks it for the      *)
(* request with the languages swapped and for the request whose text has   *)
(* one character changed.                                                  *)
(***************************************************************************)
\* characters of the longest text
MaxKeyLen == 3

KeyAlphabet == {"a", ":", "e", "n"}

KeyTexts == UNION {[1..n -> KeyAlphabet] : n \in 1..MaxKeyLen}

\* the codes of LANGUAGE_NAMES
Languages ==
  {IT, EN, Lang(<<"f", "r">>), Lang(<<"d", "e">>), Lang(<<"e", "s">>)}

\* p with its character at pos replaced by c
Changed(p, pos, c) == [p EXCEPT ![pos] = c]

InitKeys ==
  /\ Loaded
  /\ nltk_data = TRUE
  /\ ClientIdle /\ BuilderIdle /\ SanitizerIdle /\ ThreadsIdle /\ ApiIdle /\ BenchIdle
  /\ ServiceIdle
  /\ \E p \in KeyTexts, s \in Languages, d \in Languages :
       \E pos \in 1..Len(p), c \in KeyAlphabet :
         /\ s # d
         /\ c # p[pos]
         /\ lookup = Near(p, s, d, pos, c)

\* _TRANSLATION_CACHE[cache_key] = final_translation, for the request
StoreResult ==
  /\ lookup.at = "store"
  /\ _TRANSLATION_CACHE' =
       CacheStore(_TRANSLATION_CACHE,
                  CacheKey(Compress(lookup.text), lookup.src, lookup.dst),
                  ContentPlain)
  /\ lookup' = [lookup EXCEPT !.at = "lookup"]
  /\ UNCHANGED <<nltk_data, pc, text, src, dst, cache_key,
                 chunks, translated_chunks, i, outcome, posts, chunked, hit,
                 history, first_result, before, client, builder, sanitizer,
                 workers, writers, db, http, bench, service>>

\* cache_key in _TRANSLATION_CACHE, for the requests close to the request
LookUp ==
  /\ lookup.at = "lookup"
  /\ lookup' = [lookup EXCEPT
       !.at = "done",
       !.same_found =
          CacheKey(Compress(lookup.text), lookup.src, lookup.dst)
            \in DOMAIN _TRANSLATION_CACHE,
       !.swapped_found =
          CacheKey(Compress(lookup.text), lookup.dst, lookup.src)
            \in DOMAIN _TRANSLATION_CACHE,
       !.changed_found =
          CacheKey(Compress(Changed(lookup.text, lookup.pos, lookup.c)),
                   lookup.src, lookup.dst)
            \in DOMAIN _TRANSLATION_CACHE]
  /\ UNCHANGED <<_TRANSLATION_CACHE, nltk_data, pc, text, src, dst, cache_key,
                 chunks, translated_chunks, i, outcome, posts, chunked, hit,
                 history, first_result, before, client, builder, sanitizer,
                 workers, writers, db, http, bench, service>>

NextKeys == StoreResult \/ LookUp

SpecKeys == InitKeys /\ [][NextKeys]_vars

(***************************************************************************)
(* translate called by the threads of one process at the same time.  The   *)
(* cache is the one dict of the module; chunks and translated_chunks are   *)
(* locals of each call.  A step is a statement that reads or writes the    *)
(* dict (one dict operation is atomic in CPython), or one call of the      *)
(* endpoint.                                                               *)
(***************************************************************************)
\* two sentences of 2000 characters: two chunks
TextPair ==
  Cat(Cat(Cat(Rep("A", CHUNK_TARGET_SIZE - 1), Rep(".", 1)), Rep(" ", 1)),
      Cat(Rep("B", CHUNK_TARGET_SIZE - 1), Rep(".", 1)))

ThreadRequests == {<<TextShort, IT, EN>>, <<TextShort, EN, IT>>, <<TextPair, IT, EN>>}

ThreadResponses ==
  {Answer(200, Completion(JStr(ContentPlain))),
   Answer(200, Completion(JStr(ContentDirty))),
   Answer(503, Completion(JStr(ContentPlain)))}

InitThreads ==
  /\ Loaded
  /\ nltk_data = TRUE
  /\ ClientIdle /\ BuilderIdle /\ SanitizerIdle /\ LookupIdle /\ ThreadsIdle /\ ApiIdle /\ BenchIdle
  /\ ServiceIdle

\* thread w enters translate(t, s, d): the lookup, and on a miss the choice
\* of the strategy and the chunking
Enter(w, t, s, d) ==
  /\ workers[w].at = "outside"
  /\ LET key == CacheKey(t, s, d)
         found == key \in DOMAIN _TRANSLATION_CACHE
         mine == [Outside EXCEPT !.text = t, !.src = s, !.dst = d,
                                 !.cache_key = key, !.hit = found]
     IN workers' = [workers EXCEPT ![w] =
          IF found
          THEN [mine EXCEPT !.at = "returned", !.value = _TRANSLATION_CACHE[key]]
          ELSE IF NeedsChunking(t)
          THEN [mine EXCEPT !.at = "calls", !.chunked = TRUE,
                            !.texts = _create_chunks(t, CHUNK_TARGET_SIZE, nltk_data)]
          ELSE [mine EXCEPT !.at = "calls", !.texts = <<t>>]]
  /\ UNCHANGED <<_TRANSLATION_CACHE, nltk_data, pc, text, src, dst, cache_key,
                 chunks, translated_chunks, i, outcome, posts, chunked, hit,
                 history, first_result, before, client, builder, sanitizer,
                 lookup, writers, db, http, bench, service>>

\* thread w calls the endpoint for its next chunk, or for its whole text
CallEndpoint(w, response) ==
  /\ workers[w].at = "calls"
  /\ Len(workers[w].translated) < Len(workers[w].texts)
  /\ \E r \in {_call_vllm_api(workers[w].texts[Len(workers[w].translated) + 1],
                               workers[w].src, workers[w].dst, response)} :
       workers' = [workers EXCEPT ![w] =
         IF r.exc = NoExc
         THEN [@ EXCEPT !.translated = Append(@, r.value)]
         ELSE [@ EXCEPT !.at = "raised"]]
  /\ UNCHANGED <<_TRANSLATION_CACHE, nltk_data, pc, text, src, dst, cache_key,
                 chunks, translated_chunks, i, outcome, posts, chunked, hit,
                 history, first_result, before, client, builder, sanitizer,
                 lookup, writers, db, http, bench, service>>

\* thread w writes its result to the cache and returns it
StoreAndReturn(w) ==
  /\ workers[w].at = "calls"
  /\ Len(workers[w].translated) = Len(workers[w].texts)
  /\ LET final_translation ==
           IF workers[w].chunked
           THEN Join(Rep(" ", 1), workers[w].translated)
           ELSE workers[w].translated[1]
     IN /\ _TRANSLATION_CACHE' =
             CacheStore(_TRANSLATION_CACHE, workers[w].cache_key, final_translation)
        /\ workers' = [workers EXCEPT ![w].at = "returned",
                                      ![w].value = final_translation]
  /\ writers' = Append(writers, w)
  /\ UNCHANGED <<nltk_data, pc, text, src, dst, cache_key,
                 chunks, translated_chunks, i, outcome, posts, chunked, hit,
                 history, first_result, before, client, builder, sanitizer,
                 lookup, db, http, bench, service>>

NextThreads ==
  \/ \E w \in Threads, r \in ThreadRequests : Enter(w, r[1], r[2], r[3])
  \/ \E w \in Threads, response \in ThreadResponses : CallEndpoint(w, response)
  \/ \E w \in Threads : StoreAndReturn(w)

SpecThreads == InitThreads /\ [][NextThreads]_vars

(***************************************************************************)
(* The API of views.py: the translate action of FileViewSet, the download  *)
(* action of TranslationViewSet, the update of a translation and the       *)
(* deletion of a file that ModelViewSet gives.  The service is what        *)
(* app.views.translate does when the action calls it.  A request is served *)
(* whole before the next one.                                              *)
(***************************************************************************)
\* requests served in one run
MaxRequests == 3

\* the files uploaded: id -> name without extension, content
UploadedFiles ==
  <<[base |-> Compress(<<"a">>), text |-> TextShort],
    [base |-> Compress(<<"b">>), text |-> ContentDirty]>>

\* the pk of the URLs: the files, and one more
Pks == 1..(Len(UploadedFiles) + 1)

\* src_language and dst_language of the body: a code, or nothing
NoLanguage == <<>>

\* what the service does when called
ServiceOutcomes ==
  {Returned(ContentPlain), Returned(Compress(<<"Y", "o">>)), Returned(<<>>),
   Raised(TranslationError([text |-> "Il servizio di traduzione non e' al momento disponibile",
                            e |-> [type |-> "ConnectionError"]])),
   Raised([type |-> "JSONDecodeError"])}

InitApi ==
  /\ Loaded
  /\ nltk_data = TRUE
  /\ ClientIdle /\ BuilderIdle /\ SanitizerIdle /\ LookupIdle /\ ThreadsIdle
  /\ db = Uploaded(UploadedFiles)
  /\ http = NoRequest
  /\ BenchIdle /\ ServiceIdle

\* the request is answered without a call of the service; made keeps, for
\* the ids the translate action gave, what the service had returned, and
\* touched the ids updated since
Answered(request, response) ==
  [n |-> http.n + 1, request |-> request, response |-> response, called |-> 0,
   result |-> Returned(<<>>), prior |-> db.translations, made |-> http.made,
   touched |-> http.touched]

\* the request is answered after a call of the service that ended as `result`
AnsweredAfterCall(request, response, result) ==
  [Answered(request, response) EXCEPT !.called = 1, !.result = result]

\* a row of Translation without the text the service returned
TranslationPending(file, s, d, original_text, translated_text) ==
  [file |-> file, src_language |-> s, dst_language |-> d,
   original_text |-> original_text, translated_text |-> JNull,
   status |-> "pending"]

\* Translation.objects.create(file=..., ..., status='done')
TranslationDone(file, s, d, original_text, translated_text) ==
  [file |-> file, src_language |-> s, dst_language |-> d,
   original_text |-> original_text, translated_text |-> JStr(translated_text),
   status |-> "done"]

\* the tables with a row that records the failure
FailureRecorded(tables, file, s, d, original_text) ==
  [tables EXCEPT
     !.translations = Put(@, tables.last_id + 1,
                          [TranslationPending(file, s, d, original_text, <<>>)
                             EXCEPT !.status = "failed"]),
     !.last_id = @ + 1]

\* the tables after the except clause of the translate action: as they were
AfterTranslationError(tables, file, s, d, original_text) == tables

\* POST /api/files/{pk}/translate/ with src_language and dst_language
PostTranslate(pk, s, d, result) ==
  /\ http.n < MaxRequests
  /\ LET request == [action |-> "translate", pk |-> pk, src |-> s, dst |-> d]
     IN IF pk \notin DOMAIN db.files
        THEN /\ http' = Answered(request, [status |-> 404])
             /\ UNCHANGED db
        ELSE IF s = NoLanguage \/ d = NoLanguage
        THEN /\ http' = Answered(request, [status |-> 400])
             /\ UNCHANGED db
        ELSE IF result.exc.type = "TranslationError"
        THEN /\ http' = AnsweredAfterCall(request, [status |-> 500, detail |-> result.exc],
                                          result)
             /\ db' = AfterTranslationError(db, pk, s, d, db.files[pk].text)
        ELSE IF result.exc # NoExc
        THEN /\ http' = AnsweredAfterCall(request, [status |-> 500, unhandled |-> result.exc],
                                          result)
             /\ UNCHANGED db
        ELSE /\ db' = [db EXCEPT
                  !.translations =
                     Put(@, db.last_id + 1,
                         TranslationDone(pk, s, d, db.files[pk].text, result.value)),
                  !.last_id = @ + 1]
             /\ http' = [AnsweredAfterCall(
                           request,
                           [status |-> 201, translation_id |-> db.last_id + 1,
                            state |-> db'.translations[db.last_id + 1].status],
                           result)
                          EXCEPT !.made = Put(@, db.last_id + 1, result.value)]
  /\ UNCHANGED <<_TRANSLATION_CACHE, nltk_data, pc, text, src, dst, cache_key,
                 chunks, translated_chunks, i, outcome, posts, chunked, hit,
                 history, first_result, before, client, builder, sanitizer,
                 lookup, workers, writers, bench, service>>

\* translation.translated_text or ""
TextOrEmpty(translated_text) ==
  IF translated_text.t = "str" THEN translated_text.v ELSE <<>>

\* GET /api/translations/{pk}/download/
Download(pk) ==
  /\ http.n < MaxRequests
  /\ LET request == [action |-> "download", pk |-> pk]
     IN http' =
          IF pk \notin DOMAIN db.translations
          THEN Answered(request, [status |-> 404])
          ELSE Answered(request,
                 [status |-> 200,
                  content |-> TextOrEmpty(db.translations[pk].translated_text),
                  base |-> db.files[db.translations[pk].file].base,
                  language |-> db.translations[pk].dst_language])
  /\ UNCHANGED <<_TRANSLATION_CACHE, nltk_data, pc, text, src, dst, cache_key,
                 chunks, translated_chunks, i, outcome, posts, chunked, hit,
                 history, first_result, before, client, builder, sanitizer,
                 lookup, workers, writers, db, bench, service>>

\* PATCH /api/translations/{pk}/ with translated_text
PatchTranslation(pk, translated_text) ==
  /\ http.n < MaxRequests
  /\ LET request == [action |-> "patch", pk |-> pk, translated_text |-> translated_text]
     IN IF pk \notin DOMAIN db.translations
        THEN /\ http' = Answered(request, [status |-> 404])
             /\ UNCHANGED db
        ELSE /\ http' = [Answered(request, [status |-> 200])
                          EXCEPT !.touched = @ \cup {pk}]
             /\ db' = [db EXCEPT !.translations[pk].translated_text = translated_text]
  /\ UNCHANGED <<_TRANSLATION_CACHE, nltk_data, pc, text, src, dst, cache_key,
                 chunks, translated_chunks, i, outcome, posts, chunked, hit,
                 history, first_result, before, client, builder, sanitizer,
                 lookup, workers, writers, bench, service>>

\* f without its keys in gone
Without(f, gone) == [x \in DOMAIN f \ gone |-> f[x]]

\* DELETE /api/files/{pk}/: the file goes, and its translations with it
DeleteFile(pk) ==
  /\ http.n < MaxRequests
  /\ LET request == [action |-> "delete", pk |-> pk]
     IN IF pk \notin DOMAIN db.files
        THEN /\ http' = Answered(request, [status |-> 404])
             /\ UNCHANGED db
        ELSE /\ http' = Answered(request, [status |-> 204])
             /\ db' = [db EXCEPT
                  !.files = Without(@, {pk}),
                  !.translations =
                     Without(@, {id \in DOMAIN db.translations :
                                   db.translations[id].file = pk})]
  /\ UNCHANGED <<_TRANSLATION_CACHE, nltk_data, pc, text, src, dst, cache_key,
                 chunks, translated_chunks, i, outcome, posts, chunked, hit,
                 history, first_result, before, client, builder, sanitizer,
                 lookup, workers, writers, bench, service>>

NextApi ==
  \/ \E pk \in Pks, s \in {IT, NoLanguage}, d \in {EN, NoLanguage},
        result \in ServiceOutcomes : PostTranslate(pk, s, d, result)
  \/ \E pk \in 1..MaxRequests : Download(pk)
  \/ \E pk \in 1..MaxRequests, t \in {JNull, JStr(ContentDirty)} :
        PatchTranslation(pk, t)
  \/ \E pk \in Pks : DeleteFile(pk)

SpecApi == InitApi /\ [][NextApi]_vars

(***************************************************************************)
(* benchmark_client.py: main fills the queue, starts the threads and joins *)
(* them; each thread runs worker.  A step is one access to what the        *)
(* threads share: the queue, the lock, the results.                        *)
(***************************************************************************)
InitBench ==
  /\ Loaded
  /\ nltk_data = TRUE
  /\ ClientIdle /\ BuilderIdle /\ SanitizerIdle /\ LookupIdle /\ ThreadsIdle /\ ApiIdle
  /\ \E requests \in 0..MaxTasks, concurrency \in 0..MaxWorkers :
       bench = Filled(requests, concurrency)
  /\ ServiceIdle

\* what a turn of worker gets from random.choice and requests.post: a
\* response with its status code, an exception of requests.post, or an
\* exception before the request is sent
Outcomes ==
  {[sent |-> TRUE, status_code |-> 200], [sent |-> TRUE, status_code |-> 500],
   [sent |-> TRUE, status_code |-> 0], [sent |-> FALSE, status_code |-> 0]}

\* the counter of results the turn adds to
Counter(response) ==
  IF response.status_code \in {200, 201} THEN "success" ELSE "failure"

\* thread.start() of the next thread
StartThread ==
  /\ bench.main = "start"
  /\ bench.started < bench.concurrency
  /\ bench' = [bench EXCEPT !.started = @ + 1, !.at[bench.started + 1] = "while"]
  /\ UNCHANGED <<_TRANSLATION_CACHE, nltk_data, pc, text, src, dst, cache_key,
                 chunks, translated_chunks, i, outcome, posts, chunked, hit,
                 history, first_result, before, client, builder, sanitizer,
                 lookup, workers, writers, db, http, service>>

\* the joins of main return: every thread started has ended
JoinThreads ==
  /\ bench.main = "start"
  /\ bench.started = bench.concurrency
  /\ \A w \in 1..bench.concurrency : bench.at[w] = "ended"
  /\ bench' = [bench EXCEPT !.main = "end"]
  /\ UNCHANGED <<_TRANSLATION_CACHE, nltk_data, pc, text, src, dst, cache_key,
                 chunks, translated_chunks, i, outcome, posts, chunked, hit,
                 history, first_result, before, client, builder, sanitizer,
                 lookup, workers, writers, db, http, service>>

\* while not q.empty()
QEmpty(w) ==
  /\ bench.at[w] = "while"
  /\ bench' = [bench EXCEPT !.at[w] = IF bench.q = 0 THEN "ended" ELSE "get"]
  /\ UNCHANGED <<_TRANSLATION_CACHE, nltk_data, pc, text, src, dst, cache_key,
                 chunks, translated_chunks, i, outcome, posts, chunked, hit,
                 history, first_result, before, client, builder, sanitizer,
                 lookup, workers, writers, db, http, service>>

\* q.get(): blocks while the queue is empty
QGet(w) ==
  /\ bench.at[w] = "get"
  /\ bench.q > 0
  /\ bench' = [bench EXCEPT !.q = @ - 1, !.taken = @ + 1, !.at[w] = "post"]
  /\ UNCHANGED <<_TRANSLATION_CACHE, nltk_data, pc, text, src, dst, cache_key,
                 chunks, translated_chunks, i, outcome, posts, chunked, hit,
                 history, first_result, before, client, builder, sanitizer,
                 lookup, workers, writers, db, http, service>>

\* random.choice(sentences) and requests.post(url, json=payload, timeout=120)
Post(w, response) ==
  /\ bench.at[w] = "post"
  /\ bench' = [bench EXCEPT !.response[w] = response,
                            !.sent = IF response.sent THEN @ + 1 ELSE @,
                            !.at[w] = "with"]
  /\ UNCHANGED <<_TRANSLATION_CACHE, nltk_data, pc, text, src, dst, cache_key,
                 chunks, translated_chunks, i, outcome, posts, chunked, hit,
                 history, first_result, before, client, builder, sanitizer,
                 lookup, workers, writers, db, http, service>>

\* the with statement entered without the lock
EnterWithoutLock(w) ==
  /\ bench.at[w] = "with"
  /\ bench' = [bench EXCEPT !.at[w] = "load"]
  /\ UNCHANGED <<_TRANSLATION_CACHE, nltk_data, pc, text, src, dst, cache_key,
                 chunks, translated_chunks, i, outcome, posts, chunked, hit,
                 history, first_result, before, client, builder, sanitizer,
                 lookup, workers, writers, db, http, service>>

\* with results_lock: the lock is taken, in the try block or in the except
\* clause
Acquire(w) ==
  /\ bench.at[w] = "with"
  /\ bench.results_lock = 0
  /\ bench' = [bench EXCEPT !.results_lock = w, !.at[w] = "load"]
  /\ UNCHANGED <<_TRANSLATION_CACHE, nltk_data, pc, text, src, dst, cache_key,
                 chunks, translated_chunks, i, outcome, posts, chunked, hit,
                 history, first_result, before, client, builder, sanitizer,
                 lookup, workers, writers, db, http, service>>

\* results[...] += 1, first half: the counter is read
Load(w) ==
  /\ bench.at[w] = "load"
  /\ bench' = [bench EXCEPT !.read[w] = bench.results[Counter(bench.response[w])],
                            !.at[w] = "store"]
  /\ UNCHANGED <<_TRANSLATION_CACHE, nltk_data, pc, text, src, dst, cache_key,
                 chunks, translated_chunks, i, outcome, posts, chunked, hit,
                 history, first_result, before, client, builder, sanitizer,
                 lookup, workers, writers, db, http, service>>

\* results[...] += 1, second half: the counter is written; a success adds
\* its time (counted here as one duration); the with block ends and the lock
\* is free
Store(w) ==
  /\ bench.at[w] = "store"
  /\ bench' = [bench EXCEPT
       !.results[Counter(bench.response[w])] = bench.read[w] + 1,
       !.results.total_time =
          IF Counter(bench.response[w]) = "success" THEN @ + 1 ELSE @,
       !.results_lock = 0,
       !.read[w] = 0,
       !.at[w] = "task_done"]
  /\ UNCHANGED <<_TRANSLATION_CACHE, nltk_data, pc, text, src, dst, cache_key,
                 chunks, translated_chunks, i, outcome, posts, chunked, hit,
                 history, first_result, before, client, builder, sanitizer,
                 lookup, workers, writers, db, http, service>>

\* q.task_done(), then the loop again
TaskDone(w) ==
  /\ bench.at[w] = "task_done"
  /\ bench' = [bench EXCEPT !.unfinished_tasks = @ - 1,
                            !.response[w] = [sent |-> FALSE, status_code |-> 0],
                            !.at[w] = "while"]
  /\ UNCHANGED <<_TRANSLATION_CACHE, nltk_data, pc, text, src, dst, cache_key,
                 chunks, translated_chunks, i, outcome, posts, chunked, hit,
                 history, first_result, before, client, builder, sanitizer,
                 lookup, workers, writers, db, http, service>>

NextBench ==
  \/ StartThread
  \/ JoinThreads
  \/ \E w \in 1..MaxWorkers : QEmpty(w)
  \/ \E w \in 1..MaxWorkers : QGet(w)
  \/ \E w \in 1..MaxWorkers, response \in Outcomes : Post(w, response)
  \/ \E w \in 1..MaxWorkers : Acquire(w)
  \/ \E w \in 1..MaxWorkers : Load(w)
  \/ \E w \in 1..MaxWorkers : Store(w)
  \/ \E w \in 1..MaxWorkers : TaskDone(w)

SpecBench == InitBench /\ [][NextBench]_vars

(***************************************************************************)
(* benchmark-service/main.py: run_benchmark_without_vllm.  FastAPI runs a  *)
(* def endpoint in a thread pool, so requests overlap; a step is one access *)
(* to model_cache with the load that goes with it.                         *)
(***************************************************************************)
InitService ==
  /\ Loaded
  /\ nltk_data = TRUE
  /\ ClientIdle /\ BuilderIdle /\ SanitizerIdle /\ LookupIdle /\ ThreadsIdle /\ ApiIdle
  /\ BenchIdle
  /\ \E cuda \in BOOLEAN : service = Imported(cuda)

\* if "model" not in model_cache
NeedsLoad(model_cache) == "model" \notin model_cache

\* the request enters the endpoint: first_request = False, the test of the
\* cache, first_request = True and the test of CUDA
Enters(r) ==
  /\ service.at[r] = "new"
  /\ service' = [service EXCEPT
       !.first_request[r] = NeedsLoad(service.model_cache),
       !.at[r] = IF ~NeedsLoad(service.model_cache) THEN "generate"
                 ELSE IF ~service.cuda THEN "raised"
                 ELSE "tokenizer"]
  /\ UNCHANGED <<_TRANSLATION_CACHE, nltk_data, pc, text, src, dst, cache_key,
                 chunks, translated_chunks, i, outcome, posts, chunked, hit,
                 history, first_result, before, client, builder, sanitizer,
                 lookup, workers, writers, db, http, bench>>

\* model_cache["tokenizer"] = AutoTokenizer.from_pretrained(model_name), or
\* the HTTPException of the except clause
LoadTokenizer(r, ok) ==
  /\ service.at[r] = "tokenizer"
  /\ service' = IF ok
                THEN [service EXCEPT !.model_cache = @ \cup {"tokenizer"},
                                     !.loaded.tokenizer = @ + 1,
                                     !.at[r] = "model"]
                ELSE [service EXCEPT !.at[r] = "raised"]
  /\ UNCHANGED <<_TRANSLATION_CACHE, nltk_data, pc, text, src, dst, cache_key,
                 chunks, translated_chunks, i, outcome, posts, chunked, hit,
                 history, first_result, before, client, builder, sanitizer,
                 lookup, workers, writers, db, http, bench>>

\* model_cache["model"] = AutoModelForCausalLM.from_pretrained(...), or the
\* HTTPException of the except clause
LoadModel(r, ok) ==
  /\ service.at[r] = "model"
  /\ service' = IF ok
                THEN [service EXCEPT !.model_cache = @ \cup {"model"},
                                     !.loaded.model = @ + 1,
                                     !.at[r] = "generate"]
                ELSE [service EXCEPT !.at[r] = "raised"]
  /\ UNCHANGED <<_TRANSLATION_CACHE, nltk_data, pc, text, src, dst, cache_key,
                 chunks, translated_chunks, i, outcome, posts, chunked, hit,
                 history, first_result, before, client, builder, sanitizer,
                 lookup, workers, writers, db, http, bench>>

\* the inference with the cached model and tokenizer, and the result with
\* first_request; ok is whether the inference raises
Generate(r, ok) ==
  /\ service.at[r] = "generate"
  /\ service' = [service EXCEPT !.at[r] = IF ok THEN "returned" ELSE "raised"]
  /\ UNCHANGED <<_TRANSLATION_CACHE, nltk_data, pc, text, src, dst, cache_key,
                 chunks, translated_chunks, i, outcome, posts, chunked, hit,
                 history, first_result, before, client, builder, sanitizer,
                 lookup, workers, writers, db, http, bench>>

NextService ==
  \/ \E r \in 1..MaxCalls : Enters(r)
  \/ \E r \in 1..MaxCalls, ok \in BOOLEAN : LoadTokenizer(r, ok)
  \/ \E r \in 1..MaxCalls, ok \in BOOLEAN : LoadModel(r, ok)
  \/ \E r \in 1..MaxCalls, ok \in BOOLEAN : Generate(r, ok)

SpecService == InitService /\ [][NextService]_vars

(***************************************************************************)
(* Properties of translate.                                                *)
(***************************************************************************)
\* the text the endpoint answered, where choices[0].message.content is there
RawContent(response) == response.data.v.choices.v[1].v.message.v.content.v

\* the Python type of that content
RawContentType(response) == response.data.v.choices.v[1].v.message.v.content.t

\* the sanitized answers of the first n POSTs of this call
Sanitized(n) == [k \in 1..n |-> _clean_translation(RawContent(posts[k].response))]

\* C1: a call of translate made after a call with the same (text, src, dst)
\* has returned gives back the string that call returned, at once: it is a
\* cache hit, no chunking is done and no POST is sent.
C1_CacheIdempotence ==
  (pc # "idle" /\ before.done) =>
    /\ pc = "returned"
    /\ hit /\ ~chunked
    /\ posts = <<>>
    /\ outcome = Returned(first_result[Request])

C1_Witness ==
  /\ pc = "returned" /\ before.done /\ hit
  /\ text = TextLong
  /\ outcome.value # <<>>

\* C2: a chunked translate that fails ends with a TranslationError, returns
\* nothing and leaves the cache as it was when the call began; and whatever is
\* in the cache is there for a request that a call of translate completed.
C2_FailClosed ==
  /\ (pc = "raised" /\ chunked) =>
       /\ outcome.exc.type = "TranslationError"
       /\ outcome.value = <<>>
       /\ _TRANSLATION_CACHE = before.cache
  /\ \A key \in DOMAIN _TRANSLATION_CACHE :
       \E r \in DOMAIN first_result : key = CacheKey(r[1], r[2], r[3])

\* C3: a call of translate whose latest call with the same (text, src, dst)
\* failed on a chunk misses the cache and sends the chunks again from the
\* first one, in order; its translations are those of its own POSTs.
C3_RetryFromScratch ==
  (pc # "idle" /\ before.ended = "failed on a chunk") =>
    /\ ~hit /\ chunked
    /\ cache_key \notin DOMAIN before.cache
    /\ Len(posts) <= Len(chunks)
    /\ \A k \in 1..Len(posts) : posts[k].text = chunks[k]
    /\ Len(translated_chunks) = i
    /\ i \in {Len(posts), Len(posts) - 1}
    /\ translated_chunks = Sanitized(i)

C3_Witness ==
  /\ before.ended = "failed on a chunk"
  /\ pc = "returned"
  /\ Len(chunks) = 3 /\ Len(posts) = 3

\* C2, the part that does hold: a translate that raised returned nothing and
\* left the cache as it found it, and the cache holds nothing but results of
\* completed calls
FailedCallLeavesCache ==
  /\ pc = "raised" => (outcome.value = <<>> /\ _TRANSLATION_CACHE = before.cache)
  /\ \A key \in DOMAIN _TRANSLATION_CACHE :
       \E r \in DOMAIN first_result :
         /\ key = CacheKey(r[1], r[2], r[3])
         /\ _TRANSLATION_CACHE[key] = first_result[r]

\* the exception the endpoint's answer makes the client fail with
CauseOf(response) ==
  IF response.network_error THEN [type |-> "ConnectionError"]
  ELSE IF response.status >= 400
  THEN [type |-> "HTTPError", status |-> response.status]
  ELSE [type |-> "KeyError"]

\* C4 as stated: the error of a failed chunked translate names the loop index
\* i, counted from 0, of the chunk whose call failed.
C4_NamesLoopIndex ==
  (pc = "raised" /\ chunked /\ outcome.exc.type = "TranslationError") =>
    outcome.exc.msg.chunk = i

\* C4: the TranslationError of a failed chunked translate names the chunk
\* whose call failed by its position counted from 1, that is i + 1 for the
\* loop index i, together with the number of chunks, and carries the client's
\* error with its cause.
C4_ErrorNamesChunk ==
  (pc = "raised" /\ chunked /\ outcome.exc.type = "TranslationError") =>
    /\ Len(posts) = i + 1
    /\ posts[i + 1].text = chunks[i + 1]
    /\ outcome.exc.msg.chunk = i + 1
    /\ outcome.exc.msg.total = Len(chunks)
    /\ outcome.exc.msg.e.type = "TranslationError"
    /\ outcome.exc.msg.e.msg.e = CauseOf(posts[i + 1].response)

C4_Witness ==
  /\ pc = "raised" /\ chunked
  /\ Len(chunks) = 3 /\ i = 2
  /\ outcome.exc.type = "TranslationError"
  /\ outcome.exc.msg.chunk = 3

\* C5: on a cache miss the chunk builder is called exactly when
\* len(text) > MAX_CHAR_COUNT; otherwise translate sends one POST, with the
\* whole text, and what it returns is the sanitized content of the answer.
C5_StrategyDecision ==
  (pc # "idle" /\ ~hit) =>
    /\ chunked <=> StrLen(text) > MAX_CHAR_COUNT
    /\ chunked => pc # "single"
    /\ ~chunked =>
         /\ chunks = <<>>
         /\ pc = "single" => posts = <<>>
         /\ pc \in {"returned", "raised"} =>
              (Len(posts) = 1 /\ posts[1].text = text)
         /\ pc = "returned" =>
              /\ outcome.value = _clean_translation(RawContent(posts[1].response))
              /\ _TRANSLATION_CACHE[cache_key] = outcome.value

C5_Witness ==
  /\ pc = "returned" /\ ~hit /\ ~chunked
  /\ StrLen(text) = MAX_CHAR_COUNT
  /\ Len(posts) = 1
  /\ outcome.value = ContentPlain

RECURSIVE SumLen(_, _)
\* the characters of the first k units
SumLen(units, k) == IF k = 0 THEN 0 ELSE SumLen(units, k - 1) + StrLen(units[k])

\* the length of the units with one space between two
SpacedLen(units) == SumLen(units, Len(units)) + Len(units) - 1

\* C6 as stated: every text longer than MAX_CHAR_COUNT is chunked into at
\* least 2 chunks.
C6_AtLeastTwoChunks ==
  (pc # "idle" /\ ~hit /\ StrLen(text) > MAX_CHAR_COUNT) =>
    (chunked /\ Len(chunks) >= 2)

\* C6: a text longer than MAX_CHAR_COUNT is chunked, and the chunk builder
\* gives 2 chunks or more exactly when the segmentation gives 2 units or more
\* that, a space between two, are longer than CHUNK_TARGET_SIZE; a text of
\* one unit is one chunk and a text of whitespace is no chunk at all.
C6_ChunkingActivated ==
  (pc # "idle" /\ ~hit /\ StrLen(text) > MAX_CHAR_COUNT) =>
    LET units == Segment(text, nltk_data)
    IN /\ chunked
       /\ Len(chunks) >= 2 <=>
            (Len(units) >= 2 /\ SpacedLen(units) > CHUNK_TARGET_SIZE)
       /\ Len(units) = 1 => Len(chunks) = 1
       /\ Len(units) = 0 => Len(chunks) = 0

C6_Witness ==
  /\ pc = "chunks" /\ nltk_data
  /\ text = TextOver
  /\ Len(chunks) = 1 /\ StrLen(chunks[1]) = MAX_CHAR_COUNT + 1

RECURSIVE SpaceJoined(_, _)
\* t_0 + ' ' + t_1 + ' ' + ... + ' ' + t_(k-1), built from the left
SpaceJoined(t, k) ==
  IF k = 0 THEN <<>>
  ELSE IF k = 1 THEN t[1]
  ELSE Cat(Cat(SpaceJoined(t, k - 1), Rep(" ", 1)), t[k])

\* C7: a chunked translate that returns has sent one POST for each chunk, in
\* the chunk builder's order, and what it returns and caches is the sanitized
\* answers of those POSTs in that order with one space between two.
C7_OrderedReassembly ==
  (pc = "returned" /\ chunked) =>
    /\ Len(posts) = Len(chunks)
    /\ chunks = _create_chunks(text, CHUNK_TARGET_SIZE, nltk_data)
    /\ \A k \in 1..Len(chunks) : posts[k].text = chunks[k]
    /\ outcome.value = SpaceJoined(Sanitized(Len(chunks)), Len(chunks))
    /\ _TRANSLATION_CACHE[cache_key] = outcome.value

C7_Witness ==
  /\ pc = "returned" /\ chunked
  /\ Len(chunks) = 3
  /\ translated_chunks[1] = ContentPlain
  /\ translated_chunks[2] # ContentPlain
  /\ translated_chunks[3] = ContentPlain

\* C8: whatever the endpoint answers, a translate that does not return raises
\* TranslationError.
C8_OnlyTranslationError ==
  pc = "raised" => outcome.exc.type = "TranslationError"

\* C10 as stated: a translate that the endpoint answers 503 raises only after
\* 3 POSTs of the failing text, all answered 503.
C10_ThreeAttempts ==
  (pc = "raised" /\ posts[Len(posts)].response.status = 503) =>
    /\ Len(posts) >= 3
    /\ \A k \in (Len(posts) - 2)..Len(posts) :
         /\ posts[k].text = posts[Len(posts)].text
         /\ posts[k].response.status = 503

\* C10: a translate whose POST is answered 503 raises TranslationError at
\* once: the failing text was sent once, no POST follows the 503, and every
\* POST before it was answered with a translation.
C10_FailFast ==
  (pc = "raised" /\ ~posts[Len(posts)].response.network_error
     /\ posts[Len(posts)].response.status = 503) =>
    /\ outcome.exc.type = "TranslationError"
    /\ Len(posts) = IF chunked THEN i + 1 ELSE 1
    /\ posts[Len(posts)].text = IF chunked THEN chunks[i + 1] ELSE text
    /\ \A k \in 1..(Len(posts) - 1) :
         /\ posts[k].response.status = 200
         /\ posts[k].text # posts[Len(posts)].text

C10_Witness ==
  /\ pc = "raised" /\ ~chunked
  /\ Len(posts) = 1
  /\ posts[1].response.status = 503
  /\ outcome.exc.type = "TranslationError"
  /\ outcome.exc.msg.e = [type |-> "HTTPError", status |-> 503]

(***************************************************************************)
(* Properties of _call_vllm_api.                                           *)
(***************************************************************************)
\* the body is JSON of the shape choices[0].message.content
HasShape(response) ==
  /\ response.is_json
  /\ response.data.t = "dict"
  /\ "choices" \in DOMAIN response.data.v
  /\ response.data.v.choices.t = "list"
  /\ Len(response.data.v.choices.v) >= 1
  /\ response.data.v.choices.v[1].t = "dict"
  /\ "message" \in DOMAIN response.data.v.choices.v[1].v
  /\ response.data.v.choices.v[1].v.message.t = "dict"
  /\ "content" \in DOMAIN response.data.v.choices.v[1].v.message.v

OccursAt(p, q, j) ==
  /\ j + Len(q) - 1 <= Len(p)
  /\ \A m \in 1..Len(q) : p[j + m - 1] = q[m]

\* the first position from `from` on where q is in p, 0 when there is none
FindFrom(p, q, from) ==
  LET found == {j \in from..(Len(p) + 1) : OccursAt(p, q, j)}
  IN IF found = {} THEN 0 ELSE CHOOSE j \in found : \A m \in found : j <= m

RECURSIVE InOrder(_, _, _, _)
\* the parts from part k on are in p one after another, none over another,
\* from position `from` on
InOrder(p, parts, k, from) ==
  IF k > Len(parts) THEN TRUE
  ELSE LET q == Expand(parts[k])
           j == FindFrom(p, q, from)
       IN j # 0 /\ InOrder(p, parts, k + 1, j + Len(q))

RECURSIVE Flat(_, _)
\* the first k groups one after another
Flat(groups, k) == IF k = 0 THEN <<>> ELSE Flat(groups, k - 1) \o groups[k]

\* the space-joined chunks, trimmed
JoinedChunks ==
  Strip(SpaceJoined(builder.chunks, Len(builder.chunks)), Whitespace)

\* C11 as stated: the space-joined chunks, trimmed, hold every unit of the
\* segmentation as it is, one after another in the order of the segmentation.
C11_HoldsEveryUnit ==
  builder.at = "return" =>
    InOrder(Expand(JoinedChunks), builder.sentences, 1, 1)

\* C11: the units go to the chunks in order, each unit to one chunk, whole,
\* and each chunk is the space-join of its units, trimmed; so the
\* space-joined chunks hold every unit, trimmed of the whitespace at its two
\* ends, in the order of the segmentation.  Whitespace at the end of a unit
\* that closes a chunk, or at the start of one that opens a chunk, is lost.
C11_Reconstruction ==
  builder.at = "return" =>
    LET units == builder.sentences
        groups == builder.groups
        United(g) == [m \in 1..Len(g) |-> units[g[m]]]
    IN /\ builder.chunks =
            _create_chunks(builder.text, builder.target_size, builder.nltk_ok)
       /\ Flat(groups, Len(groups)) = [k \in 1..Len(units) |-> k]
       /\ Len(groups) = Len(builder.chunks)
       /\ \A j \in 1..Len(groups) :
            /\ groups[j] # <<>>
            /\ builder.chunks[j] =
                 Strip(SpaceJoined(United(groups[j]), Len(groups[j])), Whitespace)
       /\ InOrder(Expand(JoinedChunks),
                  [k \in 1..Len(units) |-> Strip(units[k], Whitespace)], 1, 1)

C11_Witness ==
  /\ builder.at = "return" /\ ~builder.nltk_ok
  /\ Len(builder.sentences) = 2 /\ Len(builder.chunks) = 2
  /\ builder.sentences[1] # Strip(builder.sentences[1], Whitespace)
  /\ builder.chunks[1] # <<>>
  /\ ~InOrder(Expand(JoinedChunks), builder.sentences, 1, 1)

\* unit k is longer than target_size
Oversized(k) == StrLen(builder.sentences[k]) > builder.target_size

\* C12: a unit longer than target_size is in one chunk only and is alone in
\* it, wherever it is in the segmentation: the chunk is the unit, trimmed.
C12_OversizedUnitAlone ==
  builder.at = "return" =>
    \A k \in 1..Len(builder.sentences) :
      Oversized(k) =>
        \E j \in 1..Len(builder.chunks) :
             /\ builder.groups[j] = <<k>>
             /\ builder.chunks[j] = Strip(builder.sentences[k], Whitespace)
             /\ \A h \in 1..Len(builder.chunks) :
                  (\E m \in 1..Len(builder.groups[h]) : builder.groups[h][m] = k)
                    => h = j

C12_Witness ==
  /\ builder.at = "return"
  /\ Len(builder.sentences) = 3
  /\ builder.sentences[1] # <<>>
  /\ ~Oversized(1) /\ Oversized(2) /\ ~Oversized(3)
  /\ builder.groups = <<<<1>>, <<2>>, <<3>>>>
  /\ builder.chunks[2] = builder.sentences[2]

(***************************************************************************)
(* Properties of _clean_translation.                                       *)
(***************************************************************************)
\* C13: _clean_translation of what _clean_translation returned is what it
\* returned.
C13_Idempotent ==
  sanitizer.at = "twice" => sanitizer.twice = sanitizer.once

\* what does hold: texts without quote characters at their ends after the
\* first pass, and without a phrase left, are not changed by a second pass
C13_CleanIsStable ==
  (sanitizer.at = "twice" /\ sanitizer.twice # sanitizer.once) =>
    \/ \E k \in 1..Len(frasi_indesiderate) :
         Replace(sanitizer.once, frasi_indesiderate[k]) # sanitizer.once
    \/ sanitizer.once[1].c \in {"\"", "'", BACKTICK}
    \/ sanitizer.once[Len(sanitizer.once)].c \in {"\"", "'", BACKTICK}

(***************************************************************************)
(* Properties of the cache key.                                            *)
(***************************************************************************)
\* C14: the key of (text, src, dst) is not the key of (text, dst, src), nor
\* the key of a text with one character changed; with the result of
\* (text, src, dst) in the cache, the cache has an entry for that request and
\* none for the other two.
C14_FingerprintSensitivity ==
  /\ LET t == Compress(lookup.text)
         u == Compress(Changed(lookup.text, lookup.pos, lookup.c))
     IN /\ CacheKey(t, lookup.src, lookup.dst) # CacheKey(t, lookup.dst, lookup.src)
        /\ CacheKey(t, lookup.src, lookup.dst) # CacheKey(u, lookup.src, lookup.dst)
        /\ Expand(CacheKey(t, lookup.src, lookup.dst))
             = Expand(lookup.src) \o <<":">> \o Expand(lookup.dst) \o <<":">>
                 \o lookup.text
  /\ lookup.at = "done" =>
        /\ lookup.same_found
        /\ ~lookup.swapped_found
        /\ ~lookup.changed_found

C14_Witness ==
  /\ lookup.at = "done"
  /\ lookup.src = IT /\ lookup.dst = EN
  /\ lookup.text = <<"e", "n", ":">>
  /\ lookup.pos = 3 /\ lookup.c = "a"
  /\ Cardinality(DOMAIN _TRANSLATION_CACHE) = 1

(***************************************************************************)
(* Properties of the cache shared by the threads.                          *)
(***************************************************************************)
\* the thread that wrote the entry of `key` last
LastWriter(key) ==
  LET ks == {k \in 1..Len(writers) : workers[writers[k]].cache_key = key}
  IN writers[CHOOSE k \in ks : \A m \in ks : m <= k]

\* thread w has finished all the calls of its request and returned their
\* results, joined
Complete(w) ==
  /\ workers[w].at = "returned" /\ ~workers[w].hit
  /\ workers[w].texts =
       IF StrLen(workers[w].text) > MAX_CHAR_COUNT
       THEN _create_chunks(workers[w].text, CHUNK_TARGET_SIZE, nltk_data)
       ELSE <<workers[w].text>>
  /\ Len(workers[w].translated) = Len(workers[w].texts)
  /\ workers[w].value = SpaceJoined(workers[w].translated, Len(workers[w].translated))

\* what the cache holds at any time
CacheIsSound ==
  /\ \A key \in DOMAIN _TRANSLATION_CACHE :
       /\ \E k \in 1..Len(writers) : workers[writers[k]].cache_key = key
       /\ Complete(LastWriter(key))
       /\ _TRANSLATION_CACHE[key] = workers[LastWriter(key)].value
  /\ \A k \in 1..Len(writers) :
       /\ Complete(writers[k])
       /\ workers[writers[k]].cache_key \in DOMAIN _TRANSLATION_CACHE
       /\ \A m \in 1..Len(writers) : writers[m] = writers[k] => m = k
  /\ \A w \in Threads :
       /\ workers[w].at = "raised" =>
            \A k \in 1..Len(writers) : writers[k] # w
       /\ (workers[w].at = "returned" /\ workers[w].hit) =>
            \E k \in 1..Len(writers) :
              /\ workers[writers[k]].cache_key = workers[w].cache_key
              /\ workers[writers[k]].value = workers[w].value

\* what a step does to the cache
CacheStep ==
  /\ DOMAIN _TRANSLATION_CACHE \subseteq DOMAIN _TRANSLATION_CACHE'
  /\ \A key \in DOMAIN _TRANSLATION_CACHE' :
       (key \notin DOMAIN _TRANSLATION_CACHE
          \/ _TRANSLATION_CACHE'[key] # _TRANSLATION_CACHE[key]) =>
         \E w \in Threads :
           /\ workers[w].at = "calls" /\ workers'[w].at = "returned"
           /\ workers[w].cache_key = key
           /\ _TRANSLATION_CACHE'[key] = workers'[w].value

\* C15: with translate called by several threads at once, an entry of the
\* cache is always the joined result of a call that finished all its
\* endpoint calls for the entry's own request, the one that wrote last; a
\* step changes no entry but the one of the thread that returns in it and
\* removes none; threads that miss on the same key each make their calls and
\* each write, and the entry is the last write.
C15_SharedCache == [](CacheIsSound) /\ [][CacheStep]_vars

C15_Witness ==
  /\ Len(writers) = 3
  /\ workers[writers[1]].cache_key = workers[writers[3]].cache_key
  /\ workers[writers[1]].cache_key # workers[writers[2]].cache_key
  /\ workers[writers[1]].chunked
  /\ workers[writers[1]].value # workers[writers[3]].value
  /\ _TRANSLATION_CACHE[workers[writers[1]].cache_key] = workers[writers[3]].value
  /\ Cardinality(DOMAIN _TRANSLATION_CACHE) = 2

(***************************************************************************)
(* Properties of the API.                                                  *)
(***************************************************************************)
\* the last request was a translate action whose call of the service raised
\* TranslationError
ServiceFailed ==
  /\ http.request.action = "translate"
  /\ http.called = 1
  /\ http.result.exc.type = "TranslationError"

\* C16: when the service raises TranslationError during the translate action,
\* the answer is a 500 that carries the error, and the Translation table is
\* what it was before the request: no row created, none changed.
C16_ErrorLeavesRecords ==
  ServiceFailed =>
    /\ http.response.status = 500
    /\ http.response.detail = http.result.exc
    /\ db.translations = http.prior

\* a translate action fails after another one has stored its translation
C16_Witness ==
  /\ ServiceFailed
  /\ http.response.status = 500
  /\ http.prior # <<>>
  /\ db.translations = http.prior

\* the last request was a translate action on a file that exists, with both
\* languages, and the service returned
ServiceReturned ==
  /\ http.request.action = "translate"
  /\ http.request.pk \in DOMAIN db.files
  /\ http.request.src # NoLanguage
  /\ http.request.dst # NoLanguage
  /\ http.result.exc = NoExc

\* the translate action called the service once, stored one new row for the
\* file with status done and the string returned, and answered 201 with the
\* id of the row
StoredOnce ==
  /\ http.called = 1
  /\ http.response.status = 201
  /\ LET id == http.response.translation_id
     IN /\ id \notin DOMAIN http.prior
        /\ DOMAIN db.translations = DOMAIN http.prior \cup {id}
        /\ \A old \in DOMAIN http.prior : db.translations[old] = http.prior[old]
        /\ db.translations[id].file = http.request.pk
        /\ db.translations[id].status = "done"
        /\ db.translations[id].translated_text = JStr(http.result.value)
        /\ http.response.state = "done"

\* the last request was the download of a row the translate action had made
Served ==
  /\ http.request.action = "download"
  /\ http.response.status = 200
  /\ http.request.pk \in DOMAIN http.made

CallEnded(k) == _call_vllm_api(posts[k].text, src, dst, posts[k].response)

\* C18: in a chunked translate the k-th call of the endpoint carries chunk k
\* and is made only when the calls for the chunks before it have all
\* returned; a translate that returns has made one call for each chunk, and
\* one that raises made its last call for the chunk that failed and none for
\* the chunks after it.  The loop is still running only when its last call
\* returned, so that every call but the last one of a translate has returned,
\* and translated_chunks holds one result for each of them.
C18_SequentialAbortOnFailure ==
  (chunked /\ pc \in {"chunks", "returned", "raised"}) =>
    /\ Len(posts) <= Len(chunks)
    /\ \A k \in 1..Len(posts) : posts[k].text = chunks[k]
    /\ Len(translated_chunks) = i
    /\ pc = "chunks" =>
         /\ Len(posts) = i
         /\ Len(posts) > 0 => CallEnded(Len(posts)).exc = NoExc
    /\ pc = "returned" =>
         /\ Len(posts) = Len(chunks)
         /\ Len(posts) = i
         /\ Len(posts) > 0 => CallEnded(Len(posts)).exc = NoExc
    /\ pc = "raised" =>
         /\ Len(posts) = i + 1
         /\ CallEnded(i + 1).exc # NoExc

\* the second of three chunks fails: the third is never sent
C18_Witness ==
  /\ chunked /\ pc = "raised"
  /\ Len(chunks) = 3
  /\ Len(posts) = 2
  /\ CallEnded(1).exc = NoExc
  /\ CallEnded(2).exc # NoExc

(***************************************************************************)
(* The flush rule of the chunk builder.                                    *)
(***************************************************************************)
\* the buffer with a space after it closed as a chunk
Closed(buffer) == Strip(buffer, Whitespace)

\* one turn of the loop over the units: the buffer is closed as a chunk
\* exactly when it is not empty and its length plus the unit's exceeds the
\* target, and then the new buffer starts with the unit
UnitStep ==
  LET unit == builder.sentences[builder.k + 1]
      buffer == builder.current_chunk
      due == buffer # <<>> /\ StrLen(buffer) + StrLen(unit) > builder.target_size
  IN /\ builder'.k = builder.k + 1
     /\ Len(builder'.chunks) = Len(builder.chunks) + 1 <=> due
     /\ due => /\ builder'.chunks = Append(builder.chunks, Closed(buffer))
               /\ builder'.current_chunk = Cat(unit, Rep(" ", 1))
     /\ ~due => /\ builder'.chunks = builder.chunks
                /\ builder'.current_chunk = Cat(Cat(buffer, unit), Rep(" ", 1))
     /\ buffer = <<>> => builder'.chunks = builder.chunks

\* after the last unit: the buffer that is not empty is closed as the last
\* chunk, the empty one adds nothing
LastStep ==
  /\ builder.k = Len(builder.sentences)
  /\ builder'.chunks = IF builder.current_chunk # <<>>
                       THEN Append(builder.chunks, Closed(builder.current_chunk))
                       ELSE builder.chunks

\* C19: over the units in order, the buffer is flushed as a chunk exactly
\* when it is not empty and len(buffer) + len(unit) > target_size, and the
\* new buffer then starts with that unit; an empty buffer is never flushed;
\* after the last unit the buffer that is not empty is flushed as the last
\* chunk.
C19_FlushRule ==
  [][/\ (builder.at = "try") => (builder'.chunks = <<>> /\ builder'.current_chunk = <<>>)
     /\ (builder.at = "for" /\ builder'.at = "for") => UnitStep
     /\ (builder.at = "for" /\ builder'.at = "return") => LastStep]_vars

\* three units: the second joined the first in the buffer, the third closed
\* that buffer, and the last flush closed the third
C19_Witness ==
  /\ builder.at = "return"
  /\ Len(builder.sentences) = 3
  /\ builder.groups = <<<<1, 2>>, <<3>>>>
  /\ Len(builder.chunks) = 2

(***************************************************************************)
(* The segmentation that fails.                                            *)
(***************************************************************************)
\* the chunks of the text cut at its newlines
NewlineChunks(t) == ChunkLoop(Split(t, "\n"), CHUNK_TARGET_SIZE, 1, <<>>, <<>>)

\* C20: when sent_tokenize raises, the chunks of a chunked translate are
\* those of the text split on newlines, the translate goes on to the chunk
\* loop with them, and it raises only what a call of the endpoint for one of
\* those chunks raised.
C20_SegmentationFallback ==
  (~nltk_data /\ chunked /\ pc \in {"chunks", "returned", "raised"}) =>
    /\ chunks = NewlineChunks(text)
    /\ pc = "returned" => Len(posts) = Len(chunks)
    /\ pc = "raised" =>
         /\ Len(posts) >= 1
         /\ posts[Len(posts)].text = chunks[Len(posts)]
         /\ LET raised == _call_vllm_api(posts[Len(posts)].text, src, dst,
                                         posts[Len(posts)].response).exc
            IN /\ raised # NoExc
               /\ outcome.exc.type = raised.type

\* without the Punkt data a long text is translated from units that are not
\* the sentences
C20_Witness ==
  /\ ~nltk_data /\ chunked /\ pc = "returned"
  /\ chunks = NewlineChunks(text)
  /\ chunks # ChunkLoop(sent_tokenize(text), CHUNK_TARGET_SIZE, 1, <<>>, <<>>)
  /\ Len(posts) = Len(chunks)

(***************************************************************************)
(* Termination of translate.                                               *)
(***************************************************************************)
\* C21: every translate that has started returns or raises, and it sends at
\* most one POST for each chunk, or one POST when the text is not chunked.
C21_Termination ==
  /\ [](Len(posts) <= IF chunked THEN Len(chunks) ELSE 1)
  /\ (pc \in {"chunks", "single"}) ~> (pc \in {"returned", "raised"})

\* a chunked translate ended with as many POSTs as it may send
C21_Witness ==
  /\ pc \in {"returned", "raised"}
  /\ chunked
  /\ Len(chunks) = 3
  /\ Len(posts) = 3
  /\ outcome.exc # NoExc

(***************************************************************************)
(* The quote characters around the translation.                            *)
(***************************************************************************)
QuoteCharacters == {"\"", "'", BACKTICK}

\* s without one layer of quote characters: its first and last character
\* when they are the same quote character, nothing otherwise
OneLayerOff(s) ==
  LET p == Expand(s)
  IN IF Len(p) >= 2 /\ p[1] \in QuoteCharacters /\ p[Len(p)] = p[1]
     THEN Compress(SubSeq(p, 2, Len(p) - 1))
     ELSE s

\* C22: what _clean_translation returns is the text without the phrases and
\* the surrounding whitespace, less one layer of enclosing quote characters:
\* a second layer stays, and a quote character on one side only stays.
C22_OneQuoteLayer ==
  sanitizer.at = "once" =>
    LET trimmed == Strip(RemoveFrasi(sanitizer.text, 1), Whitespace)
    IN sanitizer.once \in {OneLayerOff(trimmed), Strip(OneLayerOff(trimmed), Whitespace)}

(***************************************************************************)
(* The chunks and the text they come from.                                 *)
(***************************************************************************)
\* the characters of s that are not whitespace, in order
Squeezed(s) == SelectSeq(Expand(s), LAMBDA c : c \notin Whitespace)

RECURSIVE Together(_, _)
\* the first k chunks one after the other
Together(parts, k) == IF k = 0 THEN <<>> ELSE Cat(Together(parts, k - 1), parts[k])

C24_NoWorkerBlocked ==
  \A w \in 1..MaxWorkers : bench.at[w] = "get" => bench.q > 0

\* every thread that main starts has been started and has left worker
AllFinished ==
  /\ bench.started = bench.concurrency
  /\ \A w \in 1..bench.concurrency : bench.at[w] = "ended"

\* the turns of worker that have counted their task
Counted ==
  Cardinality({w \in 1..MaxWorkers : bench.at[w] = "task_done"})
    + (bench.requests - bench.unfinished_tasks)

\* a task taken from the queue sends one request at most and, once its turn
\* is over, is in one of the two counters
CountedOnce ==
  /\ bench.sent <= bench.taken
  /\ bench.taken = bench.requests - bench.q
  /\ bench.results.success + bench.results.failure = Counted
  /\ bench.results.total_time = bench.results.success

\* C30 as stated: when all the threads have finished, success + failure is
\* the number of requests put in the queue, each task taken having sent one
\* request at most and being counted once.
C30_AllCounted ==
  /\ CountedOnce
  /\ bench.main = "end" =>
       bench.results.success + bench.results.failure = bench.requests

\* C30: with one thread at least, when all the threads have finished,
\* success + failure is the number of requests put in the queue; in every
\* state a task taken has sent one request at most and is counted once, under
\* the lock, when its turn is over.
C30_AllCountedByWorkers ==
  /\ CountedOnce
  /\ (AllFinished /\ bench.concurrency >= 1) =>
       /\ bench.results.success + bench.results.failure = bench.requests
       /\ bench.q = 0
  /\ \A w \in 1..MaxWorkers :
       bench.at[w] \in {"load", "store"} => bench.results_lock = w

\* two threads have shared three tasks, with successes and failures, and
\* main has joined them
C30_Witness ==
  /\ bench.main = "end"
  /\ bench.concurrency = 2
  /\ bench.requests = 3
  /\ bench.results.success = 2
  /\ bench.results.failure = 1
  /\ bench.sent = 2

(***************************************************************************)
(* Properties of the benchmark service.                                    *)
(***************************************************************************)
\* C25: the tokenizer and the model are loaded once at most, and one request
\* at most, the one that loaded them, answers with first_request = true.
C25_LoadedOnce ==
  /\ service.loaded.tokenizer <= 1
  /\ service.loaded.model <= 1
  /\ Cardinality({r \in 1..MaxCalls :
                    service.at[r] = "returned" /\ service.first_request[r]}) <= 1

(***************************************************************************)
(* The cache key and the separator.                                        *)
(***************************************************************************)
\* C26: two requests with different (src, dst, text) have different keys, so
\* a request is answered from the cache only when the same request was
\* translated before, and then with its own translation.
C26_KeySeparation ==
  /\ \A r1 \in DOMAIN history, r2 \in DOMAIN history :
       r1 # r2 => CacheKey(r1[1], r1[2], r1[3]) # CacheKey(r2[1], r2[2], r2[3])
  /\ (pc = "returned" /\ hit) =>
       /\ before.ended = "returned"
       /\ outcome.value = first_result[Request]

(***************************************************************************)
(* The chunks that are empty.                                              *)
(***************************************************************************)
\* C27: no chunk of a chunked translate is the empty string, and no POST of
\* the chunk loop carries an empty text.
C27_NoEmptyChunk ==
  chunked =>
    /\ \A k \in 1..Len(chunks) : chunks[k] # <<>>
    /\ \A k \in 1..Len(posts) : posts[k].text # <<>>

\* the same of the chunk builder on its own, for the texts with empty lines
NoEmptyChunkBuilt ==
  builder.at = "return" => \A k \in 1..Len(builder.chunks) : builder.chunks[k] # <<>>

(***************************************************************************)
(* The size of the chunks.                                                 *)
(***************************************************************************)
\* C28: a chunk of two units or more is not longer than target_size, the
\* spaces between its units counted; a chunk longer than target_size is one
\* unit.
C28_SizeBound ==
  builder.at = "return" =>
    \A j \in 1..Len(builder.chunks) :
      Len(builder.groups[j]) >= 2 => StrLen(builder.chunks[j]) <= builder.target_size

\* a chunk of two units that is target_size long: the third unit did not
\* fit and is a chunk of its own
C28_Witness ==
  /\ builder.at = "return"
  /\ builder.target_size = 3
  /\ builder.groups = <<<<1, 2>>, <<3>>>>
  /\ StrLen(builder.chunks[1]) = builder.target_size
  /\ builder.chunks[2] # <<>>

(***************************************************************************)
(* The phrases left in the translation.                                    *)
(***************************************************************************)
\* C29: what _clean_translation returns holds no phrase of
\* frasi_indesiderate.
C29_ArtifactFree ==
  sanitizer.at = "once" =>
    \A k \in 1..Len(frasi_indesiderate) :
      FindFrom(Expand(sanitizer.once), frasi_indesiderate[k], 1) = 0

=============================================================================
